---------------------------- MODULE Spec2Model ----------------------------
(***************************************************************************)
(* Health & Fitness Club Management System (src/app/main.py, db.py,        *)
(* seed.py, src/models/models.py).                                         *)
(*                                                                         *)
(* The state is the content of the ten tables of the PostgreSQL database.  *)
(* A table is a sequence of rows; the surrogate key of a row is its index  *)
(* (rows are never deleted by the program; no operation reads the numeric  *)
(* value of a key except to look a row up).  Columns filled by a server    *)
(* default that no operation reads (classregistration.registered_at,       *)
(* invoice.issued_at) are left out of the rows.                            *)
(*                                                                         *)
(* Datetimes are integers counting half hours from seed_data's             *)
(* base_datetime; dates are integers counting days from seed_data's        *)
(* date.today().  Optional columns hold <<>> (NULL) or <<v>>.              *)
(***************************************************************************)
EXTENDS Integers, Sequences, FiniteSets, TLC

VARIABLES
    member,               \* table member
    trainer,              \* table trainer
    room,                 \* table room
    traineravailability,  \* table traineravailability
    fitnessclass,         \* table fitnessclass
    fitnessgoal,          \* table fitnessgoal
    healthmetric,         \* table healthmetric
    ptsession,            \* table ptsession
    invoice,              \* table invoice
    classregistration,    \* table classregistration
    txn,                  \* the open SQLAlchemy session of each concurrent client
    last                  \* the operation that ended last and what it reported

people   == <<member, trainer, room>>
bookings == <<fitnessclass, ptsession>>
extras   == <<traineravailability, healthmetric, invoice>>
tables   == <<member, trainer, room, traineravailability, fitnessclass,
              fitnessgoal, healthmetric, ptsession, invoice, classregistration>>
vars     == <<member, trainer, room, traineravailability, fitnessclass,
              fitnessgoal, healthmetric, ptsession, invoice, classregistration,
              txn, last>>

---------------------------------------------------------------------------
(* Values *)

NULL == <<>>
Some(v) == <<v>>

Hours(h) == 2 * h
Days(d) == 48 * d

Min(a, b) == IF a <= b THEN a ELSE b

\* session.get(Model, id): the row exists.
Exists(t, id) == id \in DOMAIN t

---------------------------------------------------------------------------
(* The capacity trigger and the constraints of classregistration,
   src/app/db.py and src/models/models.py *)

\* SELECT COUNT(*) FROM classregistration WHERE class_id = c, over the rows regs.
RegistrationCount(regs, c) ==
    Cardinality({i \in DOMAIN regs : regs[i].class_id = c})

\* Faulty variant of the trigger: the comparison is > where the trigger has >=.
check_class_capacity_gt(classes, regs, new) ==
    IF new.class_id \notin DOMAIN classes
    THEN "class_not_found"
    ELSE IF RegistrationCount(regs, new.class_id)
                > classes[new.class_id].max_capacity
         THEN "class_full"
         ELSE "ok"

\* The BEFORE INSERT trigger check_class_capacity() for the row new, reading
\* the rows of fitnessclass and classregistration that the inserting statement
\* can see.
check_class_capacity(classes, regs, new) ==
    IF new.class_id \notin DOMAIN classes
    THEN "class_not_found"
    ELSE IF RegistrationCount(regs, new.class_id)
                >= classes[new.class_id].max_capacity
         THEN "class_full"
         ELSE "ok"

\* The unique constraint uq_member_class against the rows regs.
uq_member_class(regs, new) ==
    \A i \in DOMAIN regs :
        ~(regs[i].member_id = new.member_id /\ regs[i].class_id = new.class_id)

\* Faulty variant of the duplicate check: the check is left out.
AlreadyRegistered_skipped(regs, member_id, class_id) == FALSE

\* The application-side duplicate check of register_for_class.
AlreadyRegistered(regs, member_id, class_id) ==
    \E i \in DOMAIN regs :
        regs[i].member_id = member_id /\ regs[i].class_id = class_id

\* INSERT INTO classregistration: the trigger first, then the constraint.
InsertRegistration(classes, regs, new) ==
    IF check_class_capacity(classes, regs, new) # "ok"
    THEN check_class_capacity(classes, regs, new)
    ELSE IF ~uq_member_class(regs, new) THEN "integrity_error" ELSE "ok"

---------------------------------------------------------------------------
(* seed_data: the demo data set, src/app/seed.py *)

SeedSpecialty ==
    <<"Yoga", "Yoga", "Cardio", "Strength", "Strength", "Strength", "Yoga",
      "Yoga", "Pilates", "Yoga", "Yoga", "Yoga", "Strength", "Strength",
      "Yoga", "Strength", "Pilates", "Strength", "Pilates", "Cardio", "Yoga",
      "Strength", "Pilates", "Cardio", "Cardio">>

SeedRooms ==
    [i \in 1..25 |-> [name |-> <<"Studio", i>>, capacity |-> 20 + (i % 10)]]

SeedTrainers ==
    [i \in 1..25 |->
        [full_name |-> <<"Trainer", i>>, email |-> <<"trainer", i>>,
         specialty |-> SeedSpecialty[i]]]

SeedMembers ==
    [i \in 1..40 |->
        [full_name |-> <<"Member", i>>, email |-> <<"member", i>>,
         phone |-> Some(<<"555-01", i>>),
         date_of_birth |-> Some(<<1985 + (i % 10), (i % 12) + 1, (i % 27) + 1>>),
         gender |-> Some(IF i % 2 = 0 THEN "Female" ELSE "Male")]]

\* availability_entries: trainer idx (0-based), slot 0 and 1, in that order.
SeedAvailability ==
    [k \in 1..50 |->
        LET idx == (k - 1) \div 2
            slot == (k - 1) % 2
            start == Days((idx + slot) % 7) + Hours(6 + slot * 4)
        IN  [trainer_id |-> idx + 1, start_time |-> start,
             end_time |-> start + Hours(3)]]

SeedClasses ==
    [k \in 1..30 |->
        LET i == k - 1
            start == Days(i \div 3) + Hours(6 + (i % 3) * 2)
        IN  [title |-> <<"Class", i + 1>>,
             description |-> Some(<<"High energy session", i + 1>>),
             start_time |-> start,
             end_time |-> start + Hours(1),
             max_capacity |-> Min(SeedRooms[(i % 25) + 1].capacity, 10 + (i % 4) * 5),
             trainer_id |-> (i % 25) + 1,
             room_id |-> (i % 25) + 1]]

\* goals: for each member (outer loop), j = 0..11 (inner loop).
SeedGoals ==
    [k \in 1..480 |->
        LET m == ((k - 1) \div 12) + 1
            j == (k - 1) % 12
            start_date == 0 - (120 - j * 5)
        IN  [member_id |-> m, goal_type |-> <<"Goal", j + 1>>,
             target_value |-> 70 + j, start_date |-> start_date,
             target_date |-> start_date + 60, is_active |-> TRUE]]

\* metrics: members[:15], j = 0..11; body_fat_percent in tenths of a percent.
SeedMetrics ==
    [k \in 1..180 |->
        LET m == ((k - 1) \div 12) + 1
            j == (k - 1) % 12
        IN  [member_id |-> m, recorded_at |-> 0 - Days(j * 7),
             weight_kg |-> Some(80 - j), heart_rate_bpm |-> Some(70 + (j % 6)),
             body_fat_percent |-> Some(250 - j * 2)]]

SeedSessions ==
    [k \in 1..24 |->
        LET i == k - 1
            start == Days(i) + Hours(14)
        IN  [member_id |-> (i % 40) + 1, trainer_id |-> (i % 25) + 1,
             room_id |-> ((i + 3) % 25) + 1, start_time |-> start,
             end_time |-> start + Hours(1),
             status |-> IF i % 4 = 0 THEN "COMPLETED" ELSE "BOOKED"]]

SeedInvoices ==
    [i \in 1..30 |->
        [member_id |-> i, amount |-> 50 + (i % 6) * 5,
         description |-> Some(<<"Invoice", i>>),
         due_at |-> Some(Days(30)),
         status |-> IF i % 3 = 0 THEN "PAID" ELSE "UNPAID"]]

\* registrations: for class_obj in classes[:5], for member in members[:capacity].
RECURSIVE SeedRegistrationsFrom(_)
SeedRegistrationsFrom(c) ==
    IF c > 5 THEN <<>>
    ELSE [m \in 1..Min(40, SeedClasses[c].max_capacity) |->
              [member_id |-> m, class_id |-> c]]
         \o SeedRegistrationsFrom(c + 1)

SeedRegistrations == SeedRegistrationsFrom(1)

\* The seeded registration rows are inserted one by one in the seeding
\* transaction; each insert runs the trigger and the constraint against the
\* rows inserted before it.
SeedRegistrationsAccepted ==
    \A k \in DOMAIN SeedRegistrations :
        InsertRegistration(SeedClasses, SubSeq(SeedRegistrations, 1, k - 1),
                           SeedRegistrations[k]) = "ok"

---------------------------------------------------------------------------
(* The outcome of an operation, as the caller sees it *)

Outcome(op, result) == [op |-> op, result |-> result]

Idle == [pc |-> "idle"]

Clients == {1, 2}

Init ==
    /\ member = <<>>
    /\ trainer = <<>>
    /\ room = <<>>
    /\ traineravailability = <<>>
    /\ fitnessclass = <<>>
    /\ fitnessgoal = <<>>
    /\ healthmetric = <<>>
    /\ ptsession = <<>>
    /\ invoice = <<>>
    /\ classregistration = <<>>
    /\ txn = [p \in Clients |-> Idle]
    /\ last = Outcome("init_db", "ok")

\* Faulty variant of seed_data: skipped when any room exists.
seed_data_if_no_room ==
    /\ \A p \in Clients : txn[p] = Idle
    /\ IF room # <<>>
       THEN /\ last' = Outcome("seed_data", "skipped")
            /\ UNCHANGED <<tables, txn>>
       ELSE IF ~SeedRegistrationsAccepted
       THEN /\ last' = Outcome("seed_data", "failed")
            /\ UNCHANGED <<tables, txn>>
       ELSE /\ room' = SeedRooms
            /\ trainer' = SeedTrainers
            /\ member' = SeedMembers
            /\ traineravailability' = SeedAvailability
            /\ fitnessclass' = SeedClasses
            /\ fitnessgoal' = SeedGoals
            /\ healthmetric' = SeedMetrics
            /\ ptsession' = SeedSessions
            /\ invoice' = SeedInvoices
            /\ classregistration' = SeedRegistrations
            /\ last' = Outcome("seed_data", "ok")
            /\ UNCHANGED txn

\* seed_data(session): skipped when any member exists; otherwise every table
\* is filled and committed in one transaction, which main() rolls back when an
\* insert raises.
seed_data ==
    /\ \A p \in Clients : txn[p] = Idle
    /\ IF member # <<>>
       THEN /\ last' = Outcome("seed_data", "skipped")
            /\ UNCHANGED <<tables, txn>>
       ELSE IF ~SeedRegistrationsAccepted
       THEN /\ last' = Outcome("seed_data", "failed")
            /\ UNCHANGED <<tables, txn>>
       ELSE /\ room' = SeedRooms
            /\ trainer' = SeedTrainers
            /\ member' = SeedMembers
            /\ traineravailability' = SeedAvailability
            /\ fitnessclass' = SeedClasses
            /\ fitnessgoal' = SeedGoals
            /\ healthmetric' = SeedMetrics
            /\ ptsession' = SeedSessions
            /\ invoice' = SeedInvoices
            /\ classregistration' = SeedRegistrations
            /\ last' = Outcome("seed_data", "ok")
            /\ UNCHANGED txn

---------------------------------------------------------------------------
(* Member operations, src/app/main.py *)

\* register_member: the application-side email check, then the insert.
\* Faulty variant of register_member: the email is not looked up.
register_member_unchecked(full_name, email, phone, dob, gender) ==
    /\ \A p \in Clients : txn[p] = Idle
    /\ member' = Append(member,
           [full_name |-> full_name, email |-> email, phone |-> phone,
            date_of_birth |-> dob, gender |-> gender])
    /\ last' = Outcome("register_member", "ok")
    /\ UNCHANGED <<trainer, room, extras, bookings, fitnessgoal,
                   classregistration, txn>>

register_member(full_name, email, phone, dob, gender) ==
    /\ \A p \in Clients : txn[p] = Idle
    /\ IF \E i \in DOMAIN member : member[i].email = email
       THEN /\ last' = Outcome("register_member", "email_in_use")
            /\ UNCHANGED <<tables, txn>>
       ELSE /\ member' = Append(member,
                    [full_name |-> full_name, email |-> email, phone |-> phone,
                     date_of_birth |-> dob, gender |-> gender])
            /\ last' = Outcome("register_member", "ok")
            /\ UNCHANGED <<trainer, room, extras, bookings, fitnessgoal,
                           classregistration, txn>>

\* Faulty variant of the commit: the row stays when the INSERT is refused.
CommitOrRollback_kept(regs, new, verdict) == Append(regs, new)

\* session.add(row); session.commit(): the row is kept when the INSERT goes
\* through, and session.rollback() in the exception handlers drops it.
CommitOrRollback(regs, new, verdict) ==
    IF verdict = "ok" THEN Append(regs, new) ELSE regs

\* register_for_class, run by a single client from start to commit.
register_for_class(member_id, class_id) ==
    LET new == [member_id |-> member_id, class_id |-> class_id]
        verdict == InsertRegistration(fitnessclass, classregistration, new)
        done(result) == last' = Outcome("register_for_class", result)
    IN
    /\ \A p \in Clients : txn[p] = Idle
    /\ IF ~Exists(member, member_id) \/ ~Exists(fitnessclass, class_id)
       THEN /\ done("not_found")
            /\ UNCHANGED <<tables, txn>>
       ELSE IF AlreadyRegistered(classregistration, member_id, class_id)
       THEN /\ done("already_registered")
            /\ UNCHANGED <<tables, txn>>
       ELSE /\ classregistration' = CommitOrRollback(classregistration, new, verdict)
            /\ done(verdict)
            /\ UNCHANGED <<people, extras, bookings, fitnessgoal, txn>>

---------------------------------------------------------------------------
(* Conflict checks and booking operations, src/app/main.py *)

\* An exclude_* argument is applied only when it is truthy: None and 0 exclude
\* nothing.  0 stands for both here.
NoExclusion == 0

\* Faulty variant of the WHERE clause: <= and >= where the code has < and >.
WindowClause_closed(row, start_time, end_time) ==
    row.start_time <= end_time /\ row.end_time >= start_time

\* The WHERE clause both checkers put on a booking row:
\* row.start_time < end_time AND row.end_time > start_time.
WindowClause(row, start_time, end_time) ==
    row.start_time < end_time /\ row.end_time > start_time

\* Faulty variant of trainer_has_conflict: only the PT sessions are searched.
trainer_has_conflict_sessions(trainer_id, start_time, end_time, exclude_class_id, exclude_session_id) ==
    \E x \in DOMAIN ptsession :
        /\ ptsession[x].trainer_id = trainer_id
        /\ WindowClause(ptsession[x], start_time, end_time)
        /\ (exclude_session_id # NoExclusion => x # exclude_session_id)

trainer_has_conflict(trainer_id, start_time, end_time, exclude_class_id, exclude_session_id) ==
    LET class_stmt ==
            {c \in DOMAIN fitnessclass :
                /\ fitnessclass[c].trainer_id = trainer_id
                /\ WindowClause(fitnessclass[c], start_time, end_time)
                /\ (exclude_class_id # NoExclusion => c # exclude_class_id)}
        session_stmt ==
            {x \in DOMAIN ptsession :
                /\ ptsession[x].trainer_id = trainer_id
                /\ WindowClause(ptsession[x], start_time, end_time)
                /\ (exclude_session_id # NoExclusion => x # exclude_session_id)}
    IN  class_stmt # {} \/ session_stmt # {}

\* Faulty variant of room_has_conflict: only the classes are searched.
room_has_conflict_classes(room_id, start_time, end_time, exclude_class_id, exclude_session_id) ==
    \E c \in DOMAIN fitnessclass :
        /\ fitnessclass[c].room_id = room_id
        /\ WindowClause(fitnessclass[c], start_time, end_time)
        /\ (exclude_class_id # NoExclusion => c # exclude_class_id)

room_has_conflict(room_id, start_time, end_time, exclude_class_id, exclude_session_id) ==
    LET class_stmt ==
            {c \in DOMAIN fitnessclass :
                /\ fitnessclass[c].room_id = room_id
                /\ WindowClause(fitnessclass[c], start_time, end_time)
                /\ (exclude_class_id # NoExclusion => c # exclude_class_id)}
        session_stmt ==
            {x \in DOMAIN ptsession :
                /\ ptsession[x].room_id = room_id
                /\ WindowClause(ptsession[x], start_time, end_time)
                /\ (exclude_session_id # NoExclusion => x # exclude_session_id)}
    IN  class_stmt # {} \/ session_stmt # {}

\* manage_fitness_class, action "C": the checks in the order of the code.
CreateVerdict(trainer_id, room_id, start_time, end_time, max_capacity) ==
    IF end_time <= start_time THEN "invalid_window"
    ELSE IF ~Exists(trainer, trainer_id) \/ ~Exists(room, room_id) THEN "not_found"
    ELSE IF max_capacity > room[room_id].capacity THEN "capacity_exceeds_room"
    ELSE IF trainer_has_conflict(trainer_id, start_time, end_time,
                                 NoExclusion, NoExclusion)
    THEN "trainer_conflict"
    ELSE IF room_has_conflict(room_id, start_time, end_time,
                              NoExclusion, NoExclusion)
    THEN "room_conflict"
    ELSE "ok"

create_fitness_class(title, description, trainer_id, room_id, start_time, end_time, max_capacity) ==
    LET verdict == CreateVerdict(trainer_id, room_id, start_time, end_time,
                                 max_capacity)
    IN
    /\ \A p \in Clients : txn[p] = Idle
    /\ last' = Outcome("create_fitness_class", verdict)
    /\ IF verdict = "ok"
       THEN /\ fitnessclass' = Append(fitnessclass,
                    [title |-> title, description |-> description,
                     start_time |-> start_time, end_time |-> end_time,
                     max_capacity |-> max_capacity,
                     trainer_id |-> trainer_id, room_id |-> room_id])
            /\ UNCHANGED <<people, extras, fitnessgoal, ptsession,
                           classregistration, txn>>
       ELSE UNCHANGED <<tables, txn>>

\* prompt_*_with_default: a blank answer keeps the current value.
WithDefault(answer, current) == IF answer = NULL THEN current ELSE answer[1]

\* Faulty variant of the checks of an update: max_capacity is compared with
\* the capacity of the room the class is in, not of the room it is moved to.
UpdateVerdict_old_room(class_id, trainer_id, room_id, start_time, end_time, max_capacity) ==
    IF ~Exists(trainer, trainer_id) \/ ~Exists(room, room_id) THEN "not_found"
    ELSE IF max_capacity > room[fitnessclass[class_id].room_id].capacity
    THEN "capacity_exceeds_room"
    ELSE IF end_time <= start_time THEN "invalid_window"
    ELSE IF trainer_has_conflict(trainer_id, start_time, end_time,
                                 class_id, NoExclusion)
    THEN "trainer_conflict"
    ELSE IF room_has_conflict(room_id, start_time, end_time,
                              class_id, NoExclusion)
    THEN "room_conflict"
    ELSE "ok"

\* Faulty variant of the checks of an update: the class being updated is not
\* left out of the conflict checks.
UpdateVerdict_no_exclusion(class_id, trainer_id, room_id, start_time, end_time, max_capacity) ==
    IF ~Exists(trainer, trainer_id) \/ ~Exists(room, room_id) THEN "not_found"
    ELSE IF max_capacity > room[room_id].capacity THEN "capacity_exceeds_room"
    ELSE IF end_time <= start_time THEN "invalid_window"
    ELSE IF trainer_has_conflict(trainer_id, start_time, end_time,
                                 NoExclusion, NoExclusion)
    THEN "trainer_conflict"
    ELSE IF room_has_conflict(room_id, start_time, end_time,
                              NoExclusion, NoExclusion)
    THEN "room_conflict"
    ELSE "ok"

\* manage_fitness_class, action "U", for an existing class: the checks in the
\* order of the code, on the values the prompts resolve to.
UpdateVerdict(class_id, trainer_id, room_id, start_time, end_time, max_capacity) ==
    IF ~Exists(trainer, trainer_id) \/ ~Exists(room, room_id) THEN "not_found"
    ELSE IF max_capacity > room[room_id].capacity THEN "capacity_exceeds_room"
    ELSE IF end_time <= start_time THEN "invalid_window"
    ELSE IF trainer_has_conflict(trainer_id, start_time, end_time,
                                 class_id, NoExclusion)
    THEN "trainer_conflict"
    ELSE IF room_has_conflict(room_id, start_time, end_time,
                              class_id, NoExclusion)
    THEN "room_conflict"
    ELSE "ok"

update_fitness_class(class_id, new_title, new_description, trainer_in, room_in, start_in, end_in, capacity_in) ==
    /\ \A p \in Clients : txn[p] = Idle
    /\ IF ~Exists(fitnessclass, class_id)
       THEN /\ last' = Outcome("update_fitness_class", "class_not_found")
            /\ UNCHANGED <<tables, txn>>
       ELSE LET cur == fitnessclass[class_id]
                trainer_id == WithDefault(trainer_in, cur.trainer_id)
                room_id == WithDefault(room_in, cur.room_id)
                start_time == WithDefault(start_in, cur.start_time)
                end_time == WithDefault(end_in, cur.end_time)
                max_capacity == WithDefault(capacity_in, cur.max_capacity)
                verdict == UpdateVerdict(class_id, trainer_id, room_id,
                                         start_time, end_time, max_capacity)
            IN  /\ last' = Outcome("update_fitness_class", verdict)
                /\ IF verdict = "ok"
                   THEN /\ fitnessclass' =
                              [fitnessclass EXCEPT ![class_id] =
                                  [title |-> IF new_title # NULL
                                             THEN new_title[1] ELSE cur.title,
                                   description |-> IF new_description # NULL
                                                   THEN new_description
                                                   ELSE cur.description,
                                   start_time |-> start_time,
                                   end_time |-> end_time,
                                   max_capacity |-> max_capacity,
                                   trainer_id |-> trainer_id,
                                   room_id |-> room_id]]
                        /\ UNCHANGED <<people, extras, fitnessgoal, ptsession,
                                       classregistration, txn>>
                   ELSE UNCHANGED <<tables, txn>>

\* schedule_pt_session: the checks in the order of the code.
ScheduleVerdict(member_id, trainer_id, room_id, start_time, end_time) ==
    IF end_time <= start_time THEN "invalid_window"
    ELSE IF ~(Exists(member, member_id) /\ Exists(trainer, trainer_id)
              /\ Exists(room, room_id))
    THEN "not_found"
    ELSE IF trainer_has_conflict(trainer_id, start_time, end_time,
                                 NoExclusion, NoExclusion)
    THEN "trainer_conflict"
    ELSE IF room_has_conflict(room_id, start_time, end_time,
                              NoExclusion, NoExclusion)
    THEN "room_conflict"
    ELSE "ok"

schedule_pt_session(member_id, trainer_id, room_id, start_time, end_time) ==
    LET verdict == ScheduleVerdict(member_id, trainer_id, room_id,
                                   start_time, end_time)
    IN
    /\ \A p \in Clients : txn[p] = Idle
    /\ last' = Outcome("schedule_pt_session", verdict)
    /\ IF verdict = "ok"
       THEN /\ ptsession' = Append(ptsession,
                    [member_id |-> member_id, trainer_id |-> trainer_id,
                     room_id |-> room_id, start_time |-> start_time,
                     end_time |-> end_time, status |-> "BOOKED"])
            /\ UNCHANGED <<people, extras, fitnessgoal, fitnessclass,
                           classregistration, txn>>
       ELSE UNCHANGED <<tables, txn>>

---------------------------------------------------------------------------
(* set_trainer_availability, src/app/main.py *)

\* Faulty variant: the window is not looked at before the trainer is.
AvailabilityVerdict_unchecked(trainer_id, start_time, end_time) ==
    IF ~Exists(trainer, trainer_id) THEN "not_found"
    ELSE IF \E i \in DOMAIN traineravailability :
               /\ traineravailability[i].trainer_id = trainer_id
               /\ traineravailability[i].start_time < end_time
               /\ traineravailability[i].end_time > start_time
    THEN "overlap"
    ELSE "ok"

\* Faulty variant: a slot that ends where the proposed one starts, or starts
\* where it ends, counts as overlapping.
AvailabilityVerdict_closed(trainer_id, start_time, end_time) ==
    IF end_time <= start_time THEN "invalid_window"
    ELSE IF ~Exists(trainer, trainer_id) THEN "not_found"
    ELSE IF \E i \in DOMAIN traineravailability :
               /\ traineravailability[i].trainer_id = trainer_id
               /\ traineravailability[i].start_time <= end_time
               /\ traineravailability[i].end_time >= start_time
    THEN "overlap"
    ELSE "ok"

\* The checks of set_trainer_availability, in the order of the code: the
\* window, the trainer, an overlapping slot of the trainer.
AvailabilityVerdict(trainer_id, start_time, end_time) ==
    IF end_time <= start_time THEN "invalid_window"
    ELSE IF ~Exists(trainer, trainer_id) THEN "not_found"
    ELSE IF \E i \in DOMAIN traineravailability :
               /\ traineravailability[i].trainer_id = trainer_id
               /\ traineravailability[i].start_time < end_time
               /\ traineravailability[i].end_time > start_time
    THEN "overlap"
    ELSE "ok"

set_trainer_availability(trainer_id, start_time, end_time) ==
    LET verdict == AvailabilityVerdict(trainer_id, start_time, end_time)
    IN
    /\ \A p \in Clients : txn[p] = Idle
    /\ last' = Outcome("set_trainer_availability", verdict)
    /\ IF verdict = "ok"
       THEN /\ traineravailability' = Append(traineravailability,
                    [trainer_id |-> trainer_id, start_time |-> start_time,
                     end_time |-> end_time])
            /\ UNCHANGED <<people, healthmetric, invoice, bookings,
                           fitnessgoal, classregistration, txn>>
       ELSE UNCHANGED <<tables, txn>>

---------------------------------------------------------------------------
(* update_profile_and_goal, src/app/main.py *)

\* The profile edits: a blank name keeps the name; a blank phone or gender
\* (None) keeps the column.
EditMember(row, new_name, new_phone, new_gender) ==
    [row EXCEPT !.full_name = IF new_name # NULL THEN new_name[1] ELSE @,
                !.phone = IF new_phone # NULL THEN new_phone ELSE @,
                !.gender = IF new_gender # NULL THEN new_gender ELSE @]

\* Faulty variant of the date check: equal dates are refused too.
InvalidDateRange_equal(start_date, target_date) == target_date <= start_date

\* The date check of update_profile_and_goal.
InvalidDateRange(start_date, target_date) == target_date < start_date

\* member.goals: the keys of the member's goal rows.
GoalsOf(goals, member_id) ==
    {g \in DOMAIN goals : goals[g].member_id = member_id}

\* Faulty variant of the loop: the loaded rows keep their is_active.
Deactivate_skipped(goals, loaded) == goals

\* for goal in member.goals: goal.is_active = False, over the loaded rows.
Deactivate(goals, loaded) ==
    [g \in DOMAIN goals |->
        IF g \in loaded THEN [goals[g] EXCEPT !.is_active = FALSE] ELSE goals[g]]

NewGoal(member_id, goal_type, target_value, start_date, target_date) ==
    [member_id |-> member_id, goal_type |-> goal_type,
     target_value |-> target_value, start_date |-> start_date,
     target_date |-> target_date, is_active |-> TRUE]

\* What the commit of update_profile_and_goal writes, in one transaction: the
\* UPDATE of every loaded goal row and the INSERT of the new one.
CommitGoal(goals, loaded, new) == Append(Deactivate(goals, loaded), new)

\* update_profile_and_goal, run by a single client from start to commit.
update_profile_and_goal(member_id, new_name, new_phone, new_gender, goal_type, target_value, start_date, target_date) ==
    LET done(result) ==
            last' = Outcome("update_profile_and_goal", result)
    IN
    /\ \A p \in Clients : txn[p] = Idle
    /\ IF ~Exists(member, member_id)
       THEN /\ done("member_not_found")
            /\ UNCHANGED <<tables, txn>>
       ELSE IF InvalidDateRange(start_date, target_date)
       THEN \* session.rollback() drops the pending profile edits
            /\ done("invalid_date_range")
            /\ UNCHANGED <<tables, txn>>
       ELSE /\ member' = [member EXCEPT ![member_id] =
                             EditMember(@, new_name, new_phone, new_gender)]
            /\ fitnessgoal' =
                   CommitGoal(fitnessgoal, GoalsOf(fitnessgoal, member_id),
                              NewGoal(member_id, goal_type, target_value,
                                      start_date, target_date))
            /\ done("ok")
            /\ UNCHANGED <<trainer, room, extras, bookings, classregistration, txn>>

---------------------------------------------------------------------------
(* Concurrent clients.  Every client runs its operation in a session of its
   own (get_session, src/app/db.py) on the engine's default isolation level,
   READ COMMITTED: a statement sees the rows committed before it starts and
   the rows of its own transaction.  The tables above hold the committed rows;
   txn[p] holds what client p's open transaction has pending. *)

\* register_for_class up to session.add: the three reads and the pending row.
RegBegin(p, member_id, class_id) ==
    /\ txn[p] = Idle
    /\ IF ~Exists(member, member_id) \/ ~Exists(fitnessclass, class_id)
       THEN /\ last' = Outcome("register_for_class", "not_found")
            /\ UNCHANGED txn
       ELSE IF AlreadyRegistered(classregistration, member_id, class_id)
       THEN /\ last' = Outcome("register_for_class", "already_registered")
            /\ UNCHANGED txn
       ELSE /\ txn' = [txn EXCEPT ![p] =
                          [pc |-> "added", member_id |-> member_id,
                           class_id |-> class_id]]
            /\ UNCHANGED last
    /\ UNCHANGED tables

\* The uncommitted classregistration rows of the clients other than p.
InFlight(p) ==
    {q \in Clients \ {p} : txn[q].pc = "inserted"}

SamePair(p, q) ==
    txn[q].member_id = txn[p].member_id /\ txn[q].class_id = txn[p].class_id

\* session.commit(), first half: the flush sends the INSERT.  The trigger
\* counts the committed rows (client p has inserted none before); the unique
\* index then rejects a committed duplicate and waits for an uncommitted one.
RegFlush(p) ==
    LET new == [member_id |-> txn[p].member_id, class_id |-> txn[p].class_id]
        fired == check_class_capacity(fitnessclass, classregistration, new)
        done(result) ==
            /\ last' = Outcome("register_for_class", result)
            /\ txn' = [txn EXCEPT ![p] = Idle]
    IN
    /\ txn[p].pc = "added"
    /\ IF fired # "ok"
       THEN done(fired)
       ELSE IF ~uq_member_class(classregistration, new)
       THEN done("integrity_error")
       ELSE IF \E q \in InFlight(p) : SamePair(p, q)
       THEN /\ txn' = [txn EXCEPT ![p].pc = "waiting"]
            /\ UNCHANGED last
       ELSE /\ txn' = [txn EXCEPT ![p].pc = "inserted"]
            /\ UNCHANGED last
    /\ UNCHANGED tables

\* The INSERT that waited on the unique index resumes when the other
\* transaction has ended: a committed duplicate raises IntegrityError.
RegResume(p) ==
    LET new == [member_id |-> txn[p].member_id, class_id |-> txn[p].class_id]
    IN
    /\ txn[p].pc = "waiting"
    /\ ~\E q \in InFlight(p) : SamePair(p, q)
    /\ IF ~uq_member_class(classregistration, new)
       THEN /\ last' = Outcome("register_for_class", "integrity_error")
            /\ txn' = [txn EXCEPT ![p] = Idle]
       ELSE /\ txn' = [txn EXCEPT ![p].pc = "inserted"]
            /\ UNCHANGED last
    /\ UNCHANGED tables

\* session.commit(), second half: COMMIT makes the row visible to the others.
RegCommit(p) ==
    /\ txn[p].pc = "inserted"
    /\ classregistration' =
           Append(classregistration,
                  [member_id |-> txn[p].member_id, class_id |-> txn[p].class_id])
    /\ last' = Outcome("register_for_class", "ok")
    /\ txn' = [txn EXCEPT ![p] = Idle]
    /\ UNCHANGED <<people, extras, bookings, fitnessgoal>>

\* update_profile_and_goal up to the prompts: session.get(Member) and the
\* profile edits, pending in the session (autoflush is off).
GoalBegin(p, member_id, new_name, new_phone, new_gender, goal_type, target_value, start_date, target_date) ==
    /\ txn[p] = Idle
    /\ IF ~Exists(member, member_id)
       THEN /\ last' = Outcome("update_profile_and_goal", "member_not_found")
            /\ UNCHANGED txn
       ELSE /\ txn' = [txn EXCEPT ![p] =
                          [pc |-> "edited", member_id |-> member_id,
                           new_name |-> new_name, new_phone |-> new_phone,
                           new_gender |-> new_gender, loaded |-> {},
                           new |-> NewGoal(member_id, goal_type, target_value,
                                           start_date, target_date)]]
            /\ UNCHANGED last
    /\ UNCHANGED tables

\* The date check, then the lazy load of member.goals and the loop that
\* clears is_active on the loaded rows, pending in the session.
GoalDeactivate(p) ==
    /\ txn[p].pc = "edited"
    /\ IF InvalidDateRange(txn[p].new.start_date, txn[p].new.target_date)
       THEN /\ last' = Outcome("update_profile_and_goal", "invalid_date_range")
            /\ txn' = [txn EXCEPT ![p] = Idle]
       ELSE /\ txn' = [txn EXCEPT ![p].pc = "deactivated",
                                  ![p].loaded = GoalsOf(fitnessgoal, txn[p].member_id)]
            /\ UNCHANGED last
    /\ UNCHANGED tables

\* session.add(FitnessGoal(...)): the new row, pending in the session.
GoalAdd(p) ==
    /\ txn[p].pc = "deactivated"
    /\ txn' = [txn EXCEPT ![p].pc = "added_goal"]
    /\ UNCHANGED <<tables, last>>

\* session.commit(): the flush and the COMMIT publish every pending write of
\* the transaction at once.
GoalCommit(p) ==
    /\ txn[p].pc = "added_goal"
    /\ member' = [member EXCEPT ![txn[p].member_id] =
                     EditMember(@, txn[p].new_name, txn[p].new_phone,
                                txn[p].new_gender)]
    /\ fitnessgoal' = CommitGoal(fitnessgoal, txn[p].loaded, txn[p].new)
    /\ last' = Outcome("update_profile_and_goal", "ok")
    /\ txn' = [txn EXCEPT ![p] = Idle]
    /\ UNCHANGED <<trainer, room, extras, bookings, classregistration>>

---------------------------------------------------------------------------
(* Concurrent bookings: schedule_pt_session and the create branch of
   manage_fitness_class, each in a session of its own.  The checks read the
   committed rows; the row is pending until session.commit(). *)

\* Faulty variant: the storage refuses a booking that overlaps a committed
\* booking of its trainer or of its room.
BookingInsert_excluded(classes, sessions, row) ==
    IF \E b \in {classes[c] : c \in DOMAIN classes}
                \cup {sessions[x] : x \in DOMAIN sessions} :
          /\ b.trainer_id = row.trainer_id \/ b.room_id = row.room_id
          /\ WindowClause(b, row.start_time, row.end_time)
    THEN "exclusion_violation"
    ELSE "ok"

\* The INSERT of a booking row.  The tables fitnessclass and ptsession
\* declare a primary key and foreign keys, and no constraint on the windows:
\* the storage accepts the row whatever bookings are committed.
BookingInsert(classes, sessions, row) == "ok"

\* schedule_pt_session up to session.add: the checks, then the pending row.
SessionBegin(p, member_id, trainer_id, room_id, start_time, end_time) ==
    LET verdict == ScheduleVerdict(member_id, trainer_id, room_id,
                                   start_time, end_time)
    IN
    /\ txn[p] = Idle
    /\ IF verdict # "ok"
       THEN /\ last' = Outcome("schedule_pt_session", verdict)
            /\ UNCHANGED txn
       ELSE /\ txn' = [txn EXCEPT ![p] =
                          [pc |-> "checked", op |-> "schedule_pt_session",
                           row |-> [member_id |-> member_id,
                                    trainer_id |-> trainer_id,
                                    room_id |-> room_id,
                                    start_time |-> start_time,
                                    end_time |-> end_time,
                                    status |-> "BOOKED"]]]
            /\ UNCHANGED last
    /\ UNCHANGED tables

\* manage_fitness_class, action "C", up to session.add.
ClassBegin(p, title, description, trainer_id, room_id, start_time, end_time, max_capacity) ==
    LET verdict == CreateVerdict(trainer_id, room_id, start_time, end_time,
                                 max_capacity)
    IN
    /\ txn[p] = Idle
    /\ IF verdict # "ok"
       THEN /\ last' = Outcome("create_fitness_class", verdict)
            /\ UNCHANGED txn
       ELSE /\ txn' = [txn EXCEPT ![p] =
                          [pc |-> "checked", op |-> "create_fitness_class",
                           row |-> [title |-> title, description |-> description,
                                    trainer_id |-> trainer_id,
                                    room_id |-> room_id,
                                    start_time |-> start_time,
                                    end_time |-> end_time,
                                    max_capacity |-> max_capacity]]]
            /\ UNCHANGED last
    /\ UNCHANGED tables

\* session.commit() of a booking: the INSERT and the COMMIT.
BookCommit(p) ==
    LET verdict == BookingInsert(fitnessclass, ptsession, txn[p].row)
    IN
    /\ txn[p].pc = "checked"
    /\ last' = Outcome(txn[p].op, verdict)
    /\ txn' = [txn EXCEPT ![p] = Idle]
    /\ IF verdict # "ok"
       THEN UNCHANGED tables
       ELSE IF txn[p].op = "schedule_pt_session"
       THEN /\ ptsession' = Append(ptsession, txn[p].row)
            /\ UNCHANGED <<people, extras, fitnessgoal, fitnessclass,
                           classregistration>>
       ELSE /\ fitnessclass' = Append(fitnessclass, txn[p].row)
            /\ UNCHANGED <<people, extras, fitnessgoal, ptsession,
                           classregistration>>

---------------------------------------------------------------------------
(* create_and_pay_invoice, src/app/main.py *)

\* Faulty variant of create_and_pay_invoice: marking paid always sets due_at.
create_and_pay_invoice_due_now(action, invoice_id, member_id, amount, description, mark_paid, now) ==
    LET done(result) == last' = Outcome("create_and_pay_invoice", result)
    IN
    /\ \A p \in Clients : txn[p] = Idle
    /\ IF action \notin {"C", "P"}
       THEN /\ done("invalid_choice")
            /\ UNCHANGED <<tables, txn>>
       ELSE IF action = "P"
       THEN IF ~Exists(invoice, invoice_id)
            THEN /\ done("invoice_not_found")
                 /\ UNCHANGED <<tables, txn>>
            ELSE /\ invoice' =
                       [invoice EXCEPT ![invoice_id] =
                           [@ EXCEPT !.status = "PAID",
                                     !.due_at = Some(now)]]
                 /\ done("ok")
                 /\ UNCHANGED <<people, traineravailability, healthmetric,
                                bookings, fitnessgoal, classregistration, txn>>
       ELSE IF ~Exists(member, member_id)
       THEN /\ done("member_not_found")
            /\ UNCHANGED <<tables, txn>>
       ELSE /\ invoice' = Append(invoice,
                   [member_id |-> member_id, amount |-> amount,
                    description |-> description,
                    due_at |-> IF mark_paid THEN Some(now) ELSE NULL,
                    status |-> IF mark_paid THEN "PAID" ELSE "UNPAID"])
            /\ done("ok")
            /\ UNCHANGED <<people, traineravailability, healthmetric,
                           bookings, fitnessgoal, classregistration, txn>>

\* action "P" marks an invoice paid and gives it a due date when it has none;
\* action "C" adds an invoice for an existing member, paid at once when the
\* last prompt is answered with y.
create_and_pay_invoice(action, invoice_id, member_id, amount, description, mark_paid, now) ==
    LET done(result) == last' = Outcome("create_and_pay_invoice", result)
    IN
    /\ \A p \in Clients : txn[p] = Idle
    /\ IF action \notin {"C", "P"}
       THEN /\ done("invalid_choice")
            /\ UNCHANGED <<tables, txn>>
       ELSE IF action = "P"
       THEN IF ~Exists(invoice, invoice_id)
            THEN /\ done("invoice_not_found")
                 /\ UNCHANGED <<tables, txn>>
            ELSE /\ invoice' =
                       [invoice EXCEPT ![invoice_id] =
                           [@ EXCEPT !.status = "PAID",
                                     !.due_at = IF @ = NULL THEN Some(now) ELSE @]]
                 /\ done("ok")
                 /\ UNCHANGED <<people, traineravailability, healthmetric,
                                bookings, fitnessgoal, classregistration, txn>>
       ELSE IF ~Exists(member, member_id)
       THEN /\ done("member_not_found")
            /\ UNCHANGED <<tables, txn>>
       ELSE /\ invoice' = Append(invoice,
                   [member_id |-> member_id, amount |-> amount,
                    description |-> description,
                    due_at |-> IF mark_paid THEN Some(now) ELSE NULL,
                    status |-> IF mark_paid THEN "PAID" ELSE "UNPAID"])
            /\ done("ok")
            /\ UNCHANGED <<people, traineravailability, healthmetric,
                           bookings, fitnessgoal, classregistration, txn>>

---------------------------------------------------------------------------
(* session.commit() raising inside "with get_session()" *)

\* The process has ended with an exception that nothing caught.
Exited == [pc |-> "exited"]

\* The handlers whose commit is inside a try with "except Exception".
Handled == {"register_member", "register_for_class"}

\* session.commit() raises (the connection is lost, a value does not fit its
\* column, ...).  Nothing pending reaches the tables: the handler's except
\* clause, or get_session's, calls session.rollback().  A handler with an
\* except clause prints the failure and returns to its menu.  For the others
\* get_session raises the exception again, and neither the handler, the menu
\* nor main() catches it: the process ends.
CommitRaises(op) ==
    /\ \A p \in Clients : txn[p] = Idle
    /\ UNCHANGED tables
    /\ IF op \in Handled
       THEN /\ last' = Outcome(op, "failure_reported")
            /\ UNCHANGED txn
       ELSE /\ last' = Outcome(op, "raised")
            /\ txn' = [txn EXCEPT ![1] = Exited]

\* Each handler reaches its commit when none of its checks returns before.
register_member_commit_raises(email) ==
    /\ ~\E i \in DOMAIN member : member[i].email = email
    /\ CommitRaises("register_member")

register_for_class_commit_raises(member_id, class_id) ==
    /\ Exists(member, member_id)
    /\ Exists(fitnessclass, class_id)
    /\ ~AlreadyRegistered(classregistration, member_id, class_id)
    /\ CommitRaises("register_for_class")

update_profile_and_goal_commit_raises(member_id, start_date, target_date) ==
    /\ Exists(member, member_id)
    /\ ~InvalidDateRange(start_date, target_date)
    /\ CommitRaises("update_profile_and_goal")

add_health_metric_commit_raises(member_id) ==
    /\ Exists(member, member_id)
    /\ CommitRaises("add_health_metric")

set_trainer_availability_commit_raises(trainer_id, start_time, end_time) ==
    /\ AvailabilityVerdict(trainer_id, start_time, end_time) = "ok"
    /\ CommitRaises("set_trainer_availability")

create_fitness_class_commit_raises(trainer_id, room_id, start_time, end_time, max_capacity) ==
    /\ CreateVerdict(trainer_id, room_id, start_time, end_time, max_capacity) = "ok"
    /\ CommitRaises("create_fitness_class")

update_fitness_class_commit_raises(class_id, trainer_in, room_in, start_in, end_in, capacity_in) ==
    /\ Exists(fitnessclass, class_id)
    /\ LET cur == fitnessclass[class_id]
       IN  UpdateVerdict(class_id,
                         WithDefault(trainer_in, cur.trainer_id),
                         WithDefault(room_in, cur.room_id),
                         WithDefault(start_in, cur.start_time),
                         WithDefault(end_in, cur.end_time),
                         WithDefault(capacity_in, cur.max_capacity)) = "ok"
    /\ CommitRaises("update_fitness_class")

schedule_pt_session_commit_raises(member_id, trainer_id, room_id, start_time, end_time) ==
    /\ ScheduleVerdict(member_id, trainer_id, room_id, start_time, end_time) = "ok"
    /\ CommitRaises("schedule_pt_session")

create_and_pay_invoice_commit_raises(action, invoice_id, member_id) ==
    /\ \/ action = "P" /\ Exists(invoice, invoice_id)
       \/ action = "C" /\ Exists(member, member_id)
    /\ CommitRaises("create_and_pay_invoice")

---------------------------------------------------------------------------
(* Health metrics, the dashboard view and the member lookup.  Weights are in
   kilograms; the heart rate is typed in tenths of a beat. *)

\* int(heart_rate): Python's int() of a float truncates towards zero.
IntOf(tenths) == IF tenths >= 0 THEN tenths \div 10 ELSE 0 - ((0 - tenths) \div 10)

\* add_health_metric; now is what datetime.now() returns on the client.
add_health_metric(member_id, weight, heart_rate, body_fat, now) ==
    /\ \A p \in Clients : txn[p] = Idle
    /\ IF ~Exists(member, member_id)
       THEN /\ last' = Outcome("add_health_metric", "member_not_found")
            /\ UNCHANGED <<tables, txn>>
       ELSE /\ healthmetric' =
                  Append(healthmetric,
                         [member_id |-> member_id, recorded_at |-> now,
                          weight_kg |-> weight,
                          heart_rate_bpm |-> IF heart_rate # NULL
                                             THEN Some(IntOf(heart_rate[1]))
                                             ELSE NULL,
                          body_fat_percent |-> body_fat])
            /\ last' = Outcome("add_health_metric", "ok")
            /\ UNCHANGED <<people, traineravailability, invoice, bookings,
                           fitnessgoal, classregistration, txn>>

\* WHERE member_id = m.member_id AND is_active IS TRUE
ActiveGoalRows(m) ==
    {g \in DOMAIN fitnessgoal :
        fitnessgoal[g].member_id = m /\ fitnessgoal[g].is_active}

\* WHERE member_id = m.member_id
MetricRows(m) == {x \in DOMAIN healthmetric : healthmetric[x].member_id = m}

\* ORDER BY target_date DESC, goal_id DESC: row a sorts before row b.
GoalBefore(a, b) ==
    \/ fitnessgoal[a].target_date > fitnessgoal[b].target_date
    \/ /\ fitnessgoal[a].target_date = fitnessgoal[b].target_date
       /\ a > b

\* Faulty variant of the view's metric order: by key alone.
MetricBefore_by_id(a, b) == a > b

\* ORDER BY recorded_at DESC, metric_id DESC: row a sorts before row b.
MetricBefore(a, b) ==
    \/ healthmetric[a].recorded_at > healthmetric[b].recorded_at
    \/ /\ healthmetric[a].recorded_at = healthmetric[b].recorded_at
       /\ a > b

\* ORDER BY ... LIMIT 1 over the goal rows S: no row (NULL) or the first one.
GoalLimit1(S) ==
    IF S = {} THEN NULL
    ELSE Some(CHOOSE a \in S : \A b \in S \ {a} : GoalBefore(a, b))

\* ORDER BY ... LIMIT 1 over the metric rows S.
MetricLimit1(S) ==
    IF S = {} THEN NULL
    ELSE Some(CHOOSE a \in S : \A b \in S \ {a} : MetricBefore(a, b))

\* The row of member_dashboard_view for member m: the member LEFT JOINed
\* with the two LATERAL subqueries, whose columns are NULL when they are empty.
member_dashboard_view(m) ==
    LET goal == GoalLimit1(ActiveGoalRows(m))
        metric == MetricLimit1(MetricRows(m))
    IN  [member_id |-> m,
         full_name |-> member[m].full_name,
         email |-> member[m].email,
         phone |-> member[m].phone,
         goal_type |-> IF goal = NULL THEN NULL
                       ELSE Some(fitnessgoal[goal[1]].goal_type),
         target_value |-> IF goal = NULL THEN NULL
                          ELSE Some(fitnessgoal[goal[1]].target_value),
         target_date |-> IF goal = NULL THEN NULL
                         ELSE Some(fitnessgoal[goal[1]].target_date),
         latest_metric_at |-> IF metric = NULL THEN NULL
                              ELSE Some(healthmetric[metric[1]].recorded_at),
         weight_kg |-> IF metric = NULL THEN NULL
                       ELSE healthmetric[metric[1]].weight_kg,
         heart_rate_bpm |-> IF metric = NULL THEN NULL
                            ELSE healthmetric[metric[1]].heart_rate_bpm,
         body_fat_percent |-> IF metric = NULL THEN NULL
                              ELSE healthmetric[metric[1]].body_fat_percent]

\* view_member_dashboard: the rows the query on the view returns for the id.
view_member_dashboard(member_id) ==
    /\ last' = Outcome("view_member_dashboard",
                       IF Exists(member, member_id)
                       THEN <<member_dashboard_view(member_id)>>
                       ELSE <<>>)
    /\ UNCHANGED <<tables, txn>>

\* Lower-casing of the words that occur in names and queries.
Lower(word) ==
    CASE word = "Member" -> "member"
      [] word = "MEMBER" -> "member"
      [] word = "New" -> "new"
      [] word = "NEW" -> "new"
      [] word = "Renamed" -> "renamed"
      [] OTHER -> word

\* The decimal digits of n are the first digits of i.
RECURSIVE DigitsStart(_, _)
DigitsStart(n, i) == i = n \/ (i >= 10 /\ DigitsStart(n, i \div 10))

\* full_name ILIKE '%query%'.  A name is a word, a space and a number; a
\* query is a word, or a word, a space and a number, which is a substring of
\* the name when the words agree up to case and the number's digits start
\* the name's number.
NameMatches(full_name, query) ==
    /\ Lower(full_name[1]) = Lower(query[1])
    /\ Len(query) = 2 => DigitsStart(query[2], full_name[2])

\* lookup_member_info's goal query: ORDER BY goal_id DESC, first row.
LookupGoal(m) ==
    LET rows == ActiveGoalRows(m)
    IN  IF rows = {} THEN NULL
        ELSE Some(CHOOSE a \in rows : \A b \in rows : a >= b)

\* lookup_member_info's metric query: ORDER BY recorded_at DESC, first row.
\* The order of rows with equal recorded_at is the server's choice: any of
\* them can come first.
LookupMetrics(m) ==
    LET rows == MetricRows(m)
    IN  IF rows = {} THEN {NULL}
        ELSE {Some(a) : a \in {x \in rows :
                 \A y \in rows :
                    healthmetric[x].recorded_at >= healthmetric[y].recorded_at}}

\* lookup_member_info: for every matching member, the goal row and the metric
\* row the two queries resolve (keys of the rows, NULL for none).  The line
\* printed for member m is result[m].
lookup_member_info(query) ==
    LET matched == {m \in DOMAIN member : NameMatches(member[m].full_name, query)}
        metrics == [m \in matched |-> LookupMetrics(m)]
        tied == {m \in matched : Cardinality(metrics[m]) > 1}
    IN
    /\ \E pick \in [tied -> UNION {metrics[m] : m \in tied}] :
          /\ \A m \in tied : pick[m] \in metrics[m]
          /\ last' = Outcome("lookup_member_info",
                 [m \in matched |->
                     [goal |-> LookupGoal(m),
                      metric |-> IF m \in tied THEN pick[m]
                                 ELSE CHOOSE x \in metrics[m] : TRUE]])
    /\ UNCHANGED <<tables, txn>>

---------------------------------------------------------------------------
(* Bounds and inputs *)

MaxNewMembers == 1
MaxNewClasses == 1
MaxNewSessions == 1
MaxNewGoals == 2

Seeded == room # <<>>

\* Rows added to table t since the seed (or since init_db, without a seed).
Added(t, seed) == Len(t) - (IF Seeded THEN Len(seed) ELSE 0)

\* A window no seeded booking touches: the seeded classes start at 06:00.
FreeStart == Hours(1)
FreeEnd == Hours(2)

NewMember == Len(SeedMembers) + 1
NewClass == Len(SeedClasses) + 1

---------------------------------------------------------------------------
(* Spec, serial registrations: one client at a time registers members for
   classes while classes are created and their capacity is edited. *)

RegMemberIds == {1, 2, 11, NewMember}
RegClassIds == {1, NewClass, NewClass + MaxNewClasses}
\* 30 is more than any room holds
RegCapacities == {0, 1, 2, 30}

RegisterMemberStep ==
    /\ Added(member, SeedMembers) < MaxNewMembers
    /\ \E e \in {<<"member", 1>>, <<"new", 1>>} :
          register_member(<<"New", 1>>, e, NULL, NULL, NULL)

Next ==
    \/ seed_data
    \/ RegisterMemberStep
    \/ \E m \in RegMemberIds, c \in RegClassIds : register_for_class(m, c)
    \/ \E cap \in RegCapacities :
          /\ \/ Added(fitnessclass, SeedClasses) < MaxNewClasses
             \/ CreateVerdict(1, 1, FreeStart, FreeEnd, cap) # "ok"
          /\ create_fitness_class(<<"New">>, NULL, 1, 1, FreeStart, FreeEnd, cap)
    \/ \E c \in RegClassIds, cap \in RegCapacities :
          update_fitness_class(c, NULL, NULL, NULL, NULL, NULL, NULL, Some(cap))

Spec == Init /\ [][Next]_vars

---------------------------------------------------------------------------
(* Serial bookings: classes are created and updated and PT sessions are
   scheduled around the seeded class 1 (trainer 1, room 1, 06:00-07:00). *)

\* <<trainer, room>>: class 1's own, free ones, mixed
BookPairs == {<<1, 1>>, <<2, 4>>, <<1, 4>>, <<2, 1>>}
\* same window as class 1, across its end, touching its end
BookWindows ==
    {<<Hours(6), Hours(7)>>, <<Hours(6) + 1, Hours(7) + 1>>,
     <<Hours(7), Hours(7) + 1>>}
\* <<trainer, room, start, end>>: every pair in every window, an empty window,
\* a trainer and a room that do not exist
BookRequests ==
    {<<tr[1], tr[2], w[1], w[2]>> : tr \in BookPairs, w \in BookWindows}
    \cup {<<1, 1, Hours(7), Hours(7)>>,
          <<Len(SeedTrainers) + 1, Len(SeedRooms) + 1, Hours(7), Hours(7) + 1>>}
\* the answers to the start and end prompts of an update: both blank, moved
\* across the old end, moved to touch the old end, end before start
BookMoves ==
    {<<NULL, NULL>>, <<Some(Hours(6) + 1), Some(Hours(7) + 1)>>,
     <<Some(Hours(7)), Some(Hours(7) + 1)>>, <<NULL, Some(Hours(6))>>}
\* <<member, request>>: member 1 with every request, a member that does not exist
BookSessions ==
    {<<1, q>> : q \in BookRequests}
    \cup {<<NewMember, <<2, 4, Hours(7), Hours(7) + 1>>>>}
\* <<request, max_capacity>>: 30 is more than any room holds
BookClasses ==
    {<<q, 5>> : q \in BookRequests}
    \cup {<<<<2, 4, Hours(7), Hours(7) + 1>>, 30>>}

NextBook ==
    \/ seed_data
    \/ \E k \in BookClasses :
          LET q == k[1] IN
          /\ \/ Added(fitnessclass, SeedClasses) < MaxNewClasses
             \/ CreateVerdict(q[1], q[2], q[3], q[4], k[2]) # "ok"
          /\ create_fitness_class(<<"New">>, NULL, q[1], q[2], q[3], q[4], k[2])
    \/ \E c \in {1, NewClass}, t \in {NULL, Some(2)}, r \in {NULL, Some(4)},
          w \in BookMoves :
          update_fitness_class(c, NULL, NULL, t, r, w[1], w[2], NULL)
    \/ \E k \in BookSessions :
          LET q == k[2] IN
          /\ \/ Added(ptsession, SeedSessions) < MaxNewSessions
             \/ ScheduleVerdict(k[1], q[1], q[2], q[3], q[4]) # "ok"
          /\ schedule_pt_session(k[1], q[1], q[2], q[3], q[4])

SpecBook == Init /\ [][NextBook]_vars

---------------------------------------------------------------------------
(* Concurrent registrations: two clients register members for a class that
   was created with a small capacity. *)

ConcMemberIds == {1, 2, 3}
ConcClassIds == {1, NewClass}

NextConcReg ==
    \/ seed_data
    \/ /\ Added(fitnessclass, SeedClasses) < MaxNewClasses
       /\ \E cap \in {1, 2} :
             create_fitness_class(<<"New">>, NULL, 1, 1, FreeStart, FreeEnd, cap)
    \/ \E p \in Clients, m \in ConcMemberIds, c \in ConcClassIds : RegBegin(p, m, c)
    \/ \E p \in Clients : RegFlush(p)
    \/ \E p \in Clients : RegResume(p)
    \/ \E p \in Clients : RegCommit(p)

SpecConcReg == Init /\ [][NextConcReg]_vars

---------------------------------------------------------------------------
(* Goals: clients run update_profile_and_goal step by step, each in a
   transaction of its own; whatever another session reads between two steps
   is the committed tables. *)

GoalMemberIds == {1, 2, NewMember}
GoalDates == {<<0, 30>>, <<5, 5>>, <<30, 0>>}

\* <<name, phone, gender>> answers: all blank, all given
GoalEdits ==
    {<<NULL, NULL, NULL>>,
     <<Some(<<"Renamed">>), Some(<<"555-0199">>), Some("Other")>>}

NextGoal ==
    \/ seed_data
    \/ RegisterMemberStep
    \/ /\ Added(fitnessgoal, SeedGoals) < MaxNewGoals
       /\ \E m \in GoalMemberIds, e \in GoalEdits, d \in GoalDates :
             update_profile_and_goal(m, e[1], e[2], e[3], <<"Goal">>, 1, d[1], d[2])
    \/ /\ Added(fitnessgoal, SeedGoals)
            + Cardinality({q \in Clients : txn[q] # Idle}) < MaxNewGoals
       /\ \E p \in Clients, m \in GoalMemberIds, e \in GoalEdits, d \in GoalDates :
             GoalBegin(p, m, e[1], e[2], e[3], <<"Goal">>, 1, d[1], d[2])
    \/ \E p \in Clients : GoalDeactivate(p)
    \/ \E p \in Clients : GoalAdd(p)
    \/ \E p \in Clients : GoalCommit(p)

SpecGoal == Init /\ [][NextGoal]_vars

---------------------------------------------------------------------------
(* Class capacities against room capacities: classes are created in, and
   moved between, rooms of different capacities, with and without a new
   max_capacity. *)

\* class 1 (room 1, max_capacity 10), class 8 (room 8, max_capacity 25), the
\* class created, a class that does not exist
CapClassIds == {1, 8, NewClass, NewClass + MaxNewClasses}
\* <<room_id, max_capacity, start, end>> of a create.  Rooms 1, 8, 10 hold 21,
\* 28, 20; room 26 does not exist; the last window is empty.
CapCreates ==
    {<<1, 21, FreeStart, FreeEnd>>, <<1, 30, FreeStart, FreeEnd>>,
     <<10, 21, FreeStart, FreeEnd>>, <<10, 2, FreeStart, FreeEnd>>,
     <<8, 30, FreeEnd, FreeEnd>>, <<Len(SeedRooms) + 1, 2, FreeStart, FreeEnd>>}
\* <<room answer, max_capacity answer>> of an update
CapMoves ==
    {<<NULL, NULL>>, <<Some(10), NULL>>, <<Some(8), NULL>>, <<NULL, Some(30)>>,
     <<Some(8), Some(25)>>, <<Some(10), Some(2)>>, <<Some(1), Some(21)>>,
     <<Some(Len(SeedRooms) + 1), NULL>>}

NextCap ==
    \/ seed_data
    \/ \E k \in CapCreates :
          /\ \/ Added(fitnessclass, SeedClasses) < MaxNewClasses
             \/ CreateVerdict(1, k[1], k[3], k[4], k[2]) # "ok"
          /\ create_fitness_class(<<"New">>, NULL, 1, k[1], k[3], k[4], k[2])
    \/ \E c \in CapClassIds, k \in CapMoves :
          update_fitness_class(c, NULL, NULL, NULL, k[1], NULL, NULL, k[2])

SpecCap == Init /\ [][NextCap]_vars

---------------------------------------------------------------------------
(* Dashboard and lookup: metrics are added with the clients' clocks, which
   are not synchronised and can repeat a value; goals are set by two clients;
   the dashboard and the lookup read the committed rows at any time. *)

MaxNewMetrics == 2

\* member 1 (seeded, or the first one registered), a member that never exists
DashWriteIds == {1, NewMember + MaxNewMembers}
\* member 1, member 16 (seeded without metrics), a member that never exists
DashReadIds == {1, 16, NewMember + MaxNewMembers}
\* what datetime.now() returns
DashClock == {Hours(1), Hours(2)}
\* <<weight, heart rate, body fat>> typed at the first and at the later calls
DashReadings == <<<<Some(75), Some(715), NULL>>, <<NULL, NULL, Some(180)>>>>
\* <<start_date, target_date>> typed by client 1 and by client 2
DashDates == <<<<0, 30>>, <<5, 5>>>>
\* "member 1" is in the names of members 1 and 10 to 19
DashQueries == {<<"member", 1>>, <<"NEW">>, <<"zzz">>}

NextDash ==
    \/ seed_data
    \/ RegisterMemberStep
    \/ /\ Added(healthmetric, SeedMetrics) < MaxNewMetrics
       /\ \E m \in DashWriteIds, now \in DashClock :
             LET k == DashReadings[Min(Added(healthmetric, SeedMetrics) + 1, 2)]
             IN  add_health_metric(m, k[1], k[2], k[3], now)
    \/ /\ Added(fitnessgoal, SeedGoals)
            + Cardinality({q \in Clients : txn[q] # Idle}) < MaxNewGoals
       /\ \E p \in Clients, m \in DashWriteIds :
             GoalBegin(p, m, NULL, NULL, NULL, <<"Goal">>, 1,
                       DashDates[p][1], DashDates[p][2])
    \/ \E p \in Clients : GoalDeactivate(p)
    \/ \E p \in Clients : GoalAdd(p)
    \/ \E p \in Clients : GoalCommit(p)
    \/ \E m \in DashReadIds : view_member_dashboard(m)
    \/ \E q \in DashQueries : lookup_member_info(q)

SpecDash == Init /\ [][NextDash]_vars

---------------------------------------------------------------------------
(* Proposals that fail several checks at once, for class create, class
   update and schedule_pt_session. *)

NoTrainer == Len(SeedTrainers) + 1
NoRoom == Len(SeedRooms) + 1

\* <<trainer, room, start, end, max_capacity>> of a create.  Class 1 has
\* trainer 1 and room 1 at 06:00-07:00; room 1 holds 21.
OrderCreates ==
    {<<1, 1, FreeStart, FreeEnd, 5>>,
     <<NoTrainer, 1, FreeEnd, FreeEnd, 5>>,
     <<1, 1, FreeEnd, FreeStart, 30>>,
     <<1, NoRoom, FreeStart, FreeEnd, 30>>,
     <<1, 2, Hours(6), Hours(7), 30>>,
     <<1, 1, Hours(6), Hours(7), 5>>,
     <<2, 1, Hours(6), Hours(7), 5>>,
     <<1, 1, Hours(6) + 1, Hours(6) + 1, 5>>}
\* <<trainer, room, start, end, max_capacity>> answers of an update
OrderUpdates ==
    {<<NULL, NULL, NULL, NULL, NULL>>,
     <<Some(2), Some(4), NULL, NULL, NULL>>,
     <<Some(NoTrainer), NULL, NULL, Some(Hours(6)), NULL>>,
     <<NULL, NULL, NULL, Some(Hours(6)), Some(30)>>,
     <<NULL, Some(NoRoom), NULL, NULL, Some(30)>>,
     <<Some(2), Some(2), Some(Hours(8)), Some(Hours(9)), Some(30)>>,
     <<Some(2), Some(2), Some(Hours(8)), Some(Hours(9)), NULL>>,
     <<NULL, Some(2), Some(Hours(8)), Some(Hours(9)), NULL>>}
\* <<member, trainer, room, start, end>> of a PT session
OrderSessions ==
    {<<1, 1, 1, FreeStart, FreeEnd>>,
     <<NewMember + MaxNewMembers, 1, 1, FreeEnd, FreeEnd>>,
     <<1, NoTrainer, 1, FreeEnd, FreeStart>>,
     <<1, 1, NoRoom, Hours(6), Hours(7)>>,
     <<1, 1, 1, Hours(6), Hours(7)>>,
     <<1, 2, 1, Hours(6), Hours(7)>>,
     <<1, 1, 1, Hours(6) + 1, Hours(6) + 1>>}

NextOrder ==
    \/ seed_data
    \/ \E k \in OrderCreates :
          /\ \/ Added(fitnessclass, SeedClasses) < MaxNewClasses
             \/ CreateVerdict(k[1], k[2], k[3], k[4], k[5]) # "ok"
          /\ create_fitness_class(<<"New">>, NULL, k[1], k[2], k[3], k[4], k[5])
    \/ \E c \in {1, NewClass}, k \in OrderUpdates :
          update_fitness_class(c, NULL, NULL, k[1], k[2], k[3], k[4], k[5])
    \/ \E k \in OrderSessions :
          /\ \/ Added(ptsession, SeedSessions) < MaxNewSessions
             \/ ScheduleVerdict(k[1], k[2], k[3], k[4], k[5]) # "ok"
          /\ schedule_pt_session(k[1], k[2], k[3], k[4], k[5])

SpecOrder == Init /\ [][NextOrder]_vars

\* The availability slots added after the seed.
MaxNewSlots == 1

\* <<trainer, start, end>> of an availability slot.  Trainer 1 is available
\* at 06:00-09:00 of day 0.
WindowSlots ==
    {<<1, FreeStart, FreeEnd>>,
     <<1, FreeEnd, FreeEnd>>,
     <<1, FreeEnd, FreeStart>>,
     <<NoTrainer, FreeEnd, FreeStart>>,
     <<NoTrainer, FreeStart, FreeEnd>>,
     <<1, Hours(7), Hours(8)>>,
     <<1, Hours(7), Hours(7)>>}

NextWindow ==
    \/ NextOrder
    \/ \E k \in WindowSlots :
          /\ \/ Added(traineravailability, SeedAvailability) < MaxNewSlots
             \/ AvailabilityVerdict(k[1], k[2], k[3]) # "ok"
          /\ set_trainer_availability(k[1], k[2], k[3])

SpecWindow == Init /\ [][NextWindow]_vars

\* The invoices added after the seed.
MaxNewInvoices == 1

NoInvoice == Len(SeedInvoices) + 1

\* <<action, invoice id, member id, mark paid>> of an invoice call
FailInvoices ==
    {<<"P", 1, 1, FALSE>>, <<"P", NoInvoice, 1, FALSE>>, <<"C", 1, 1, FALSE>>,
     <<"C", 1, NewMember + MaxNewMembers, FALSE>>, <<"C", 1, 2, TRUE>>,
     <<"X", 1, 1, FALSE>>}

\* The calls of the menus, each either committing or failing at its commit.
NextFail ==
    \/ seed_data
    \/ \E k \in FailInvoices :
          /\ \/ Added(invoice, SeedInvoices) < MaxNewInvoices
             \/ k[1] # "C" \/ ~Exists(member, k[3])
          /\ create_and_pay_invoice(k[1], k[2], k[3], 50, NULL, k[4], Hours(1))
    \/ \E k \in OrderSessions :
          /\ \/ Added(ptsession, SeedSessions) < MaxNewSessions
             \/ ScheduleVerdict(k[1], k[2], k[3], k[4], k[5]) # "ok"
          /\ schedule_pt_session(k[1], k[2], k[3], k[4], k[5])
    \/ \E e \in {<<"member", 1>>, <<"new", 1>>} : register_member_commit_raises(e)
    \/ \E m \in {1, NewMember + MaxNewMembers}, c \in {1, 6} :
          register_for_class_commit_raises(m, c)
    \/ \E m \in {1, NewMember + MaxNewMembers}, d \in {<<0, 30>>, <<30, 0>>} :
          update_profile_and_goal_commit_raises(m, d[1], d[2])
    \/ \E m \in {1, NewMember + MaxNewMembers} : add_health_metric_commit_raises(m)
    \/ \E k \in WindowSlots : set_trainer_availability_commit_raises(k[1], k[2], k[3])
    \/ \E k \in OrderCreates :
          create_fitness_class_commit_raises(k[1], k[2], k[3], k[4], k[5])
    \/ \E c \in {1, NewClass}, k \in OrderUpdates :
          update_fitness_class_commit_raises(c, k[1], k[2], k[3], k[4], k[5])
    \/ \E k \in OrderSessions :
          schedule_pt_session_commit_raises(k[1], k[2], k[3], k[4], k[5])
    \/ \E k \in FailInvoices : create_and_pay_invoice_commit_raises(k[1], k[2], k[3])

SpecFail == Init /\ [][NextFail]_vars

---------------------------------------------------------------------------
(* Concurrent bookings: two clients book a class and a PT session. *)

\* <<trainer, room, start, end>>: the free window with trainers 1 and 2 in
\* rooms 1 and 2, the window of class 1, an empty window.
ConcRequests ==
    {<<1, 1, FreeStart, FreeEnd>>, <<1, 2, FreeStart, FreeEnd>>,
     <<2, 1, FreeStart, FreeEnd>>, <<2, 2, FreeStart + 1, FreeEnd + 1>>,
     <<1, 1, Hours(6), Hours(7)>>, <<1, 1, FreeEnd, FreeStart>>}

\* The rows of operation op that are pending in the clients' sessions.
Pending(op) == Cardinality({p \in Clients : txn[p].pc = "checked" /\ txn[p].op = op})

NextConcBook ==
    \/ seed_data
    \/ \E p \in Clients, q \in ConcRequests :
          /\ \/ Added(ptsession, SeedSessions) + Pending("schedule_pt_session")
                   < MaxNewSessions
             \/ ScheduleVerdict(1, q[1], q[2], q[3], q[4]) # "ok"
          /\ SessionBegin(p, 1, q[1], q[2], q[3], q[4])
    \/ \E p \in Clients, q \in ConcRequests :
          /\ \/ Added(fitnessclass, SeedClasses) + Pending("create_fitness_class")
                   < MaxNewClasses
             \/ CreateVerdict(q[1], q[2], q[3], q[4], 5) # "ok"
          /\ ClassBegin(p, <<"New">>, NULL, q[1], q[2], q[3], q[4], 5)
    \/ \E p \in Clients : BookCommit(p)

SpecConcBook == Init /\ [][NextConcBook]_vars

---------------------------------------------------------------------------
(* Members: registrations with used and unused emails, among the operations
   that write a member row or rows that refer to one. *)

\* the emails of seeded members 1 and 40, and one no seeded member has
MemberEmails == {<<"member", 1>>, <<"member", 40>>, <<"new", 1>>}

EmailInUse(email) == \E i \in DOMAIN member : member[i].email = email

NextMember ==
    \/ seed_data
    \/ \E e \in MemberEmails :
          /\ Added(member, SeedMembers) < MaxNewMembers \/ EmailInUse(e)
          /\ register_member(<<"New", 1>>, e, NULL, NULL, NULL)
    \/ \E m \in {1, NewMember}, e \in GoalEdits, d \in {<<0, 30>>, <<30, 0>>} :
          /\ \/ Added(fitnessgoal, SeedGoals) < MaxNewGoals
             \/ ~Exists(member, m) \/ InvalidDateRange(d[1], d[2])
          /\ update_profile_and_goal(m, e[1], e[2], e[3], <<"Goal">>, 1, d[1], d[2])
    \/ \E m \in {1, NewMember} :
          /\ Added(healthmetric, SeedMetrics) < MaxNewMetrics \/ ~Exists(member, m)
          /\ add_health_metric(m, Some(700), NULL, NULL, Hours(1))
    \/ \E m \in {1, NewMember} : register_for_class(m, 6)

SpecMember == Init /\ [][NextMember]_vars

---------------------------------------------------------------------------
(* Availability: slots are added for trainers 1 and 2 around the seeded slot
   of trainer 1 at 06:00-09:00 of day 0. *)

\* <<start, end>>: free, empty, inverted, ending at 06:00, starting at 09:00
\* and running over the trainer's PT session at 14:00-15:00, across 09:00,
\* the seeded window, inside it, around it.
SlotWindows ==
    {<<FreeStart, FreeEnd>>, <<FreeEnd, FreeEnd>>, <<FreeEnd, FreeStart>>,
     <<Hours(5), Hours(6)>>, <<Hours(9), Hours(15)>>, <<Hours(8), Hours(10)>>,
     <<Hours(6), Hours(9)>>, <<Hours(7), Hours(8)>>, <<Hours(5), Hours(10)>>}

SlotTrainers == {1, 2, NoTrainer}

NextSlots ==
    \/ seed_data
    \/ \E t \in SlotTrainers, w \in SlotWindows :
          /\ \/ Added(traineravailability, SeedAvailability) <= MaxNewSlots
             \/ AvailabilityVerdict(t, w[1], w[2]) # "ok"
          /\ set_trainer_availability(t, w[1], w[2])

SpecSlots == Init /\ [][NextSlots]_vars

---------------------------------------------------------------------------
(* Invoices: invoices are created, paid or not, and marked paid, once and
   again.  Seeded invoices 1 and 2 are UNPAID, invoice 3 is PAID. *)

\* <<action, invoice id, member id, mark paid, now>>
InvoiceCalls ==
    {<<"P", 1, 1, FALSE, Hours(2)>>, <<"P", 3, 1, FALSE, Hours(2)>>,
     <<"P", NoInvoice, 1, FALSE, Hours(2)>>,
     <<"P", NoInvoice + MaxNewInvoices, 1, FALSE, Hours(2)>>,
     <<"C", 1, 1, FALSE, Hours(1)>>, <<"C", 1, 2, TRUE, Hours(1)>>,
     <<"C", 1, NewMember + MaxNewMembers, TRUE, Hours(1)>>,
     <<"X", 1, 1, FALSE, Hours(1)>>}

NextInvoice ==
    \/ seed_data
    \/ RegisterMemberStep
    \/ \E k \in InvoiceCalls :
          /\ \/ Added(invoice, SeedInvoices) < MaxNewInvoices
             \/ k[1] # "C" \/ ~Exists(member, k[3])
          /\ create_and_pay_invoice(k[1], k[2], k[3], 50, NULL, k[4], k[5])

SpecInvoice == Init /\ [][NextInvoice]_vars

---------------------------------------------------------------------------
(* Properties *)

\* The other nine tables.
NoOtherTable ==
    <<member, trainer, room, traineravailability, fitnessclass, fitnessgoal,
      healthmetric, ptsession, invoice>>

\* The classregistration rows of class c.
RowsOfClass(c) == {i \in DOMAIN classregistration : classregistration[i].class_id = c}

\* The classregistration rows of the pair (m, c).
RowsOfPair(m, c) ==
    {i \in DOMAIN classregistration :
        classregistration[i].member_id = m /\ classregistration[i].class_id = c}

\* C1: in every state reached by serial operations (seed_data,
\* register_for_class, class create and update), every class has at most
\* max_capacity registration rows, also after an update that changes
\* max_capacity while registrations exist.
C1_CapacityNeverExceeded ==
    \A c \in DOMAIN fitnessclass :
        Cardinality(RowsOfClass(c)) <= fitnessclass[c].max_capacity

\* C2: when register_for_class transactions for the same class interleave
\* (each runs the before-insert capacity guard and then commits), the number
\* of committed registrations of a class never exceeds its max_capacity.
C2_ConcurrentCapacityRespected ==
    \A c \in DOMAIN fitnessclass :
        Len(SelectSeq(classregistration, LAMBDA row : row.class_id = c))
            <= fitnessclass[c].max_capacity

\* C3: a registration by an existing member who is not yet registered in an
\* existing class succeeds, and persists its row, if and only if the class
\* holds fewer than max_capacity registrations; otherwise it is rejected as
\* class full and persists nothing.  (So of N+1 members registering one after
\* another for an empty class of capacity N, exactly N succeed.)
C3_SucceedsIffBelowCapacity ==
    [][\A m \in RegMemberIds, c \in RegClassIds :
          (/\ Exists(member, m) /\ Exists(fitnessclass, c)
           /\ RowsOfPair(m, c) = {}
           /\ register_for_class(m, c))
          => IF Cardinality(RowsOfClass(c)) < fitnessclass[c].max_capacity
             THEN /\ last'.result = "ok"
                  /\ classregistration' =
                         Append(classregistration, [member_id |-> m, class_id |-> c])
             ELSE /\ last'.result = "class_full"
                  /\ classregistration' = classregistration]_vars

\* A class created empty with capacity 2 holds 2 rows and the registration
\* that ended last was turned away as class full.
C3_Witness ==
    /\ last = Outcome("register_for_class", "class_full")
    /\ Exists(fitnessclass, NewClass)
    /\ fitnessclass[NewClass].max_capacity = 2
    /\ Cardinality(RowsOfClass(NewClass)) = 2

\* C4: registering a (member, class) pair that is already registered is
\* rejected as already registered by the application-side check, with no
\* insert attempted and the class's registration count unchanged; and no
\* state holds two registration rows for the same pair.
C4_NoDuplicateRegistration ==
    /\ [](\A m \in DOMAIN member, c \in DOMAIN fitnessclass :
             Cardinality(RowsOfPair(m, c)) <= 1)
    /\ [][\A m \in RegMemberIds, c \in RegClassIds :
             (/\ Exists(member, m) /\ Exists(fitnessclass, c)
              /\ RowsOfPair(m, c) # {}
              /\ register_for_class(m, c))
             => /\ last'.result = "already_registered"
                /\ classregistration' = classregistration]_vars

\* The new member registered for the new class once, and the registration
\* that ended last was turned away as already registered.
C4_Witness ==
    /\ last = Outcome("register_for_class", "already_registered")
    /\ Cardinality(RowsOfPair(NewMember, NewClass)) = 1

\* C5: a successful register_for_class adds exactly one classregistration row,
\* for the given member and class, and changes no other row; a rejected call
\* (member or class not found, already registered, class full) leaves every
\* table as it was.
C5_RegistrationFrame ==
    [][\A m \in RegMemberIds, c \in RegClassIds :
          register_for_class(m, c)
          => /\ NoOtherTable' = NoOtherTable
             /\ IF last'.result = "ok"
                THEN /\ Len(classregistration') = Len(classregistration) + 1
                     /\ SubSeq(classregistration', 1, Len(classregistration))
                            = classregistration
                     /\ classregistration'[Len(classregistration')]
                            = [member_id |-> m, class_id |-> c]
                ELSE /\ last'.result \in {"not_found", "already_registered",
                                          "class_full"}
                     /\ classregistration' = classregistration]_vars

\* The new member registered for the new class, and that row is the last one.
C5_Witness ==
    /\ last = Outcome("register_for_class", "ok")
    /\ classregistration # <<>>
    /\ classregistration[Len(classregistration)]
           = [member_id |-> NewMember, class_id |-> NewClass]

---------------------------------------------------------------------------
(* Properties of the conflict checks and the bookings *)

NewSession == Len(SeedSessions) + 1

\* The half-open windows [row.start_time, row.end_time) and [s, e) share an
\* instant.
Intersects(row, s, e) ==
    \E x \in s..(e - 1) : row.start_time <= x /\ x < row.end_time

\* Trainer t has a class other than xc, or a session other than xs, whose
\* window shares an instant with [s, e).
TrainerBooked(t, s, e, xc, xs) ==
    \/ \E c \in DOMAIN fitnessclass \ {xc} :
          fitnessclass[c].trainer_id = t /\ Intersects(fitnessclass[c], s, e)
    \/ \E x \in DOMAIN ptsession \ {xs} :
          ptsession[x].trainer_id = t /\ Intersects(ptsession[x], s, e)

RoomBooked(r, s, e, xc, xs) ==
    \/ \E c \in DOMAIN fitnessclass \ {xc} :
          fitnessclass[c].room_id = r /\ Intersects(fitnessclass[c], s, e)
    \/ \E x \in DOMAIN ptsession \ {xs} :
          ptsession[x].room_id = r /\ Intersects(ptsession[x], s, e)

\* Proposed windows: those of the bookings, one touching the start of class 1,
\* one around it.
ProbeWindows ==
    BookWindows \cup {<<Hours(6) - 1, Hours(6)>>, <<Hours(6) - 1, Hours(7) + 1>>,
                      <<Hours(7) + 1, Hours(8)>>}
ProbeResources == {1, 2, 4}
\* <<exclude_class_id, exclude_session_id>>
ProbeExclusions == {<<0, 0>>, <<1, 0>>, <<0, 1>>, <<NewClass, NewSession>>}

\* Every booking row, whichever table holds it.
BookingRows ==
    {fitnessclass[c] : c \in DOMAIN fitnessclass}
    \cup {ptsession[x] : x \in DOMAIN ptsession}

\* C6: for a proposed window [s, e) with s < e, trainer_has_conflict and
\* room_has_conflict return true if and only if some booking of the resource
\* that is not excluded shares an instant with the window; the test on a row is
\* symmetric in the row and the proposed window; a window that only touches a
\* booking at an endpoint does not conflict with it.
C6_ConflictIffOverlap ==
    /\ \A r \in ProbeResources, w \in ProbeWindows, x \in ProbeExclusions :
          /\ trainer_has_conflict(r, w[1], w[2], x[1], x[2])
                <=> TrainerBooked(r, w[1], w[2], x[1], x[2])
          /\ room_has_conflict(r, w[1], w[2], x[1], x[2])
                <=> RoomBooked(r, w[1], w[2], x[1], x[2])
    /\ \A b \in BookingRows, w \in ProbeWindows :
          /\ WindowClause(b, w[1], w[2])
                <=> WindowClause([start_time |-> w[1], end_time |-> w[2]],
                                 b.start_time, b.end_time)
          /\ (w[2] = b.start_time \/ w[1] = b.end_time)
                => ~WindowClause(b, w[1], w[2])

\* Trainer 1 has class 1 at 06:00-07:00 and a new session at 07:00-07:30.  A
\* window across 07:00 conflicts; the window 07:30-08:00 touches the session and
\* does not; the window of class 1 does not conflict once class 1 is excluded.
C6_Witness ==
    /\ Exists(ptsession, NewSession)
    /\ ptsession[NewSession].trainer_id = 1
    /\ ptsession[NewSession].start_time = Hours(7)
    /\ fitnessclass[1].trainer_id = 1
    /\ fitnessclass[1].end_time = Hours(7)
    /\ trainer_has_conflict(1, Hours(6) + 1, Hours(7) + 1, NoExclusion, NoExclusion)
    /\ ~trainer_has_conflict(1, Hours(7) + 1, Hours(8), NoExclusion, NoExclusion)
    /\ trainer_has_conflict(1, Hours(6), Hours(7), NoExclusion, NoExclusion)
    /\ ~trainer_has_conflict(1, Hours(6), Hours(7), 1, NoExclusion)

\* C7: the conflict check takes class bookings and PT-session bookings
\* together.  A PT session proposed for existing member, trainer and room in a
\* valid window is rejected as a trainer conflict when the trainer has a class
\* or a session sharing an instant with the window, whatever the room; else as
\* a room conflict when the room has one; else it is booked (so a window that
\* only touches the trainer's class succeeds in a free room).  The same holds
\* for a class proposed over existing classes and sessions.
C7_UnionOfClassesAndSessions ==
    [][/\ \A k \in BookSessions :
             LET m == k[1]  t == k[2][1]  r == k[2][2]
                 s == k[2][3]  e == k[2][4]
             IN  (/\ s < e
                  /\ Exists(member, m) /\ Exists(trainer, t) /\ Exists(room, r)
                  /\ schedule_pt_session(m, t, r, s, e))
                 => IF TrainerBooked(t, s, e, 0, 0)
                    THEN last'.result = "trainer_conflict" /\ ptsession' = ptsession
                    ELSE IF RoomBooked(r, s, e, 0, 0)
                    THEN last'.result = "room_conflict" /\ ptsession' = ptsession
                    ELSE /\ last'.result = "ok"
                         /\ ptsession' = Append(ptsession,
                               [member_id |-> m, trainer_id |-> t, room_id |-> r,
                                start_time |-> s, end_time |-> e,
                                status |-> "BOOKED"])
       /\ \A k \in BookClasses :
             LET t == k[1][1]  r == k[1][2]  s == k[1][3]  e == k[1][4]
                 cap == k[2]
             IN  (/\ s < e
                  /\ Exists(trainer, t) /\ Exists(room, r)
                  /\ cap <= room[r].capacity
                  /\ create_fitness_class(<<"New">>, NULL, t, r, s, e, cap))
                 => IF TrainerBooked(t, s, e, 0, 0)
                    THEN last'.result = "trainer_conflict"
                         /\ fitnessclass' = fitnessclass
                    ELSE IF RoomBooked(r, s, e, 0, 0)
                    THEN last'.result = "room_conflict"
                         /\ fitnessclass' = fitnessclass
                    ELSE /\ last'.result = "ok"
                         /\ Len(fitnessclass') = Len(fitnessclass) + 1]_vars

\* Trainer 1 still has class 1 at 06:00-07:00; a PT session of trainer 1 was
\* booked at 07:00-07:30, and the session asked for last was turned away as a
\* trainer conflict.
C7_Witness ==
    /\ last = Outcome("schedule_pt_session", "trainer_conflict")
    /\ fitnessclass[1].trainer_id = 1
    /\ fitnessclass[1].start_time = Hours(6)
    /\ fitnessclass[1].end_time = Hours(7)
    /\ Exists(ptsession, NewSession)
    /\ ptsession[NewSession].trainer_id = 1
    /\ ptsession[NewSession].start_time = Hours(7)
    /\ ptsession[NewSession].end_time = Hours(7) + 1

\* Two booking rows overlap: each starts before the other ends.
Overlap(a, b) == a.start_time < b.end_time /\ b.start_time < a.end_time

\* Every booking, tagged with its table and key.
Bookings ==
    {[kind |-> "class", id |-> c, row |-> fitnessclass[c]] : c \in DOMAIN fitnessclass}
    \cup {[kind |-> "session", id |-> x, row |-> ptsession[x]] : x \in DOMAIN ptsession}

\* C8: in every state reached by serial seed_data, class create, class update
\* and schedule_pt_session, no two distinct bookings (class/class,
\* session/session, class/session) that share a trainer overlap, and no two
\* that share a room overlap.
C8_NoDoubleBooking ==
    \A a \in Bookings, b \in Bookings :
        (a # b /\ Overlap(a.row, b.row))
        => /\ a.row.trainer_id # b.row.trainer_id
           /\ a.row.room_id # b.row.room_id

\* A new class and a new session share a room, the one ending where the other
\* starts, and class 1 has been moved by an update.
C8_Witness ==
    /\ Exists(fitnessclass, NewClass)
    /\ Exists(ptsession, NewSession)
    /\ fitnessclass[NewClass].room_id = ptsession[NewSession].room_id
    /\ fitnessclass[NewClass].end_time = ptsession[NewSession].start_time
    /\ fitnessclass[1].start_time # SeedClasses[1].start_time
    /\ \E a \in Bookings, b \in Bookings : a # b /\ a.row.trainer_id = b.row.trainer_id

---------------------------------------------------------------------------
(* Properties of the goals *)

\* The goals of member m that are active in the table goals.
ActiveGoals(goals, m) == {g \in GoalsOf(goals, m) : goals[g].is_active}

\* The client whose transaction ends in this step, if any, had loaded every
\* goal row of member m that is committed now: no other update of m's goals
\* was committed between its load and its commit.
LoadedAll(m) ==
    \A p \in Clients :
        (txn[p] # Idle /\ txn'[p] = Idle) => txn[p].loaded = GoalsOf(fitnessgoal, m)

\* C9: update_profile_and_goal with a valid date range publishes its writes in
\* one step.  Every step of the operation that changes the committed goals
\* appends exactly one row, the new goal of some member m, active; changes
\* the old rows of m only by clearing is_active; leaves the goals of every
\* other member as they were; and, for an operation that loaded all the goals
\* of m, leaves the new goal as the only active goal of m.  Every other step
\* of the operation leaves the committed goals and members unchanged, so no
\* reader sees the old goals deactivated without the new one, or the new one
\* beside an old active one.
C9_GoalSwitchAtomic ==
    [][last'.op # "seed_data" =>
          /\ fitnessgoal' # fitnessgoal =>
                LET n == Len(fitnessgoal')
                    m == fitnessgoal'[n].member_id
                IN  /\ last' = Outcome("update_profile_and_goal", "ok")
                    /\ n = Len(fitnessgoal) + 1
                    /\ fitnessgoal'[n].is_active
                    /\ \A g \in DOMAIN fitnessgoal :
                          IF fitnessgoal[g].member_id = m
                          THEN fitnessgoal'[g] \in
                                  {fitnessgoal[g],
                                   [fitnessgoal[g] EXCEPT !.is_active = FALSE]}
                          ELSE fitnessgoal'[g] = fitnessgoal[g]
                    /\ LoadedAll(m) => ActiveGoals(fitnessgoal', m) = {n}
          /\ (last'.op = "update_profile_and_goal" /\ fitnessgoal' = fitnessgoal)
                => member' = member
          /\ (last' = Outcome("update_profile_and_goal", "ok") /\ last # last')
                => fitnessgoal' # fitnessgoal]_vars

\* Member 1 had the twelve seeded goals, all active; after the update they are
\* all inactive, the new goal is the only active one, and the goals of member
\* 2 are as seeded.
C9_Witness ==
    /\ last = Outcome("update_profile_and_goal", "ok")
    /\ Len(fitnessgoal) = Len(SeedGoals) + 1
    /\ fitnessgoal[Len(fitnessgoal)].member_id = 1
    /\ ActiveGoals(fitnessgoal, 1) = {Len(fitnessgoal)}
    /\ Cardinality(GoalsOf(fitnessgoal, 1)) = 13
    /\ \A g \in GoalsOf(fitnessgoal, 2) : fitnessgoal[g] = SeedGoals[g]
    /\ ActiveGoals(fitnessgoal, 2) # {}

\* C10: in every reachable state, the state right after seed_data included,
\* each member has at most one goal with is_active = true.
C10_AtMostOneActiveGoal ==
    \A m \in DOMAIN member : Cardinality(ActiveGoals(fitnessgoal, m)) <= 1

\* C11: update_profile_and_goal is rejected exactly when target_date <
\* start_date (equal dates are accepted), and a rejected call changes nothing:
\* no goal is deactivated, none is inserted, and the name, phone and gender
\* entered in the call are not persisted.
C11_InvalidDateRangeRejected ==
    [][/\ \A m \in GoalMemberIds, e \in GoalEdits, d \in GoalDates :
             (/\ Exists(member, m)
              /\ update_profile_and_goal(m, e[1], e[2], e[3], <<"Goal">>, 1,
                                         d[1], d[2]))
             => IF d[2] < d[1]
                THEN /\ last' = Outcome("update_profile_and_goal", "invalid_date_range")
                     /\ UNCHANGED tables
                ELSE /\ last' = Outcome("update_profile_and_goal", "ok")
                     /\ Len(fitnessgoal') = Len(fitnessgoal) + 1
       /\ \A p \in Clients :
             (txn[p].pc = "edited" /\ txn'[p] # txn[p])
             => IF txn[p].new.target_date < txn[p].new.start_date
                THEN /\ last' = Outcome("update_profile_and_goal", "invalid_date_range")
                     /\ txn'[p] = Idle
                     /\ UNCHANGED tables
                ELSE txn'[p].pc = "deactivated"]_vars

\* A call with a name, a phone and a gender and an inverted date range was
\* turned away on the seeded database: members and goals are as seeded.  In
\* the same run a call with target_date = start_date had gone through.
C11_Witness ==
    /\ last = Outcome("update_profile_and_goal", "invalid_date_range")
    /\ Len(fitnessgoal) = Len(SeedGoals) + 1
    /\ fitnessgoal[Len(fitnessgoal)].target_date = fitnessgoal[Len(fitnessgoal)].start_date
    /\ member[2] = SeedMembers[2]
    /\ \A g \in GoalsOf(fitnessgoal, 2) : fitnessgoal[g] = SeedGoals[g]

---------------------------------------------------------------------------
(* Properties of the class capacities *)

\* C12: a class created or updated with max_capacity greater than the
\* capacity of the chosen room is rejected with every table unchanged (as
\* capacity_exceeds_room when nothing checked earlier fails); so in every
\* reachable state, after seed_data and after an update that moves a class to
\* another room included, every stored class has max_capacity at most the
\* capacity of its room.
C12_CapacityWithinRoom ==
    /\ [](\A c \in DOMAIN fitnessclass :
             /\ Exists(room, fitnessclass[c].room_id)
             /\ fitnessclass[c].max_capacity <= room[fitnessclass[c].room_id].capacity)
    /\ [][/\ \A k \in CapCreates :
                (/\ Exists(room, k[1]) /\ k[2] > room[k[1]].capacity
                 /\ create_fitness_class(<<"New">>, NULL, 1, k[1], k[3], k[4], k[2]))
                => /\ UNCHANGED tables
                   /\ last'.result # "ok"
                   /\ (k[3] < k[4] /\ Exists(trainer, 1))
                         => last'.result = "capacity_exceeds_room"
          /\ \A c \in CapClassIds, k \in CapMoves :
                (/\ Exists(fitnessclass, c)
                 /\ LET to == IF k[1] = NULL THEN fitnessclass[c].room_id ELSE k[1][1]
                        new == IF k[2] = NULL THEN fitnessclass[c].max_capacity
                               ELSE k[2][1]
                    IN  Exists(room, to) /\ new > room[to].capacity
                 /\ update_fitness_class(c, NULL, NULL, NULL, k[1], NULL, NULL, k[2]))
                => /\ UNCHANGED tables
                   /\ last' = Outcome("update_fitness_class", "capacity_exceeds_room")]_vars

\* Class 8 still holds 25 in room 8 after an update was refused for the room's
\* capacity; class 1 was moved to room 10 and a class was created.
C12_Witness ==
    /\ last = Outcome("update_fitness_class", "capacity_exceeds_room")
    /\ Exists(fitnessclass, NewClass)
    /\ fitnessclass[8].room_id = 8
    /\ fitnessclass[8].max_capacity = 25
    /\ fitnessclass[1].room_id = 10

---------------------------------------------------------------------------
(* Properties of the dashboard and the lookup *)

\* Row is the member's active goal that no other active goal of the member
\* precedes: none has a later target_date, nor the same one and a higher key.
TopGoal(m, g) ==
    /\ g \in ActiveGoals(fitnessgoal, m)
    /\ \A h \in ActiveGoals(fitnessgoal, m) \ {g} :
          \/ fitnessgoal[h].target_date < fitnessgoal[g].target_date
          \/ /\ fitnessgoal[h].target_date = fitnessgoal[g].target_date
             /\ h < g

\* The metrics of member m.
MetricsOf(m) == {x \in DOMAIN healthmetric : healthmetric[x].member_id = m}

\* Row is the member's metric that no other metric of the member precedes.
TopMetric(m, x) ==
    /\ x \in MetricsOf(m)
    /\ \A y \in MetricsOf(m) \ {x} :
          \/ healthmetric[y].recorded_at < healthmetric[x].recorded_at
          \/ /\ healthmetric[y].recorded_at = healthmetric[x].recorded_at
             /\ y < x

\* The goal columns of a dashboard row are those of goal g.
ShowsGoal(row, g) ==
    /\ row.goal_type = Some(fitnessgoal[g].goal_type)
    /\ row.target_value = Some(fitnessgoal[g].target_value)
    /\ row.target_date = Some(fitnessgoal[g].target_date)

\* The metric columns of a dashboard row are those of metric x.
ShowsMetric(row, x) ==
    /\ row.latest_metric_at = Some(healthmetric[x].recorded_at)
    /\ row.weight_kg = healthmetric[x].weight_kg
    /\ row.heart_rate_bpm = healthmetric[x].heart_rate_bpm
    /\ row.body_fat_percent = healthmetric[x].body_fat_percent

\* C13: for every existing member the dashboard returns exactly one row, with
\* the member's active goal that is first by (target_date descending, goal id
\* descending) and the member's metric that is first by (recorded_at
\* descending, metric id descending); the goal columns are null when the
\* member has no active goal and the metric columns are null when the member
\* has no metric, and the row is still returned.
C13_DashboardRow ==
    [][\A m \in DashReadIds :
          (/\ Exists(member, m)
           /\ last'.op = "view_member_dashboard"
           /\ view_member_dashboard(m))
          => /\ Len(last'.result) = 1
             /\ LET row == last'.result[1]
                IN  /\ row.member_id = m
                    /\ IF ActiveGoals(fitnessgoal, m) = {}
                       THEN /\ row.goal_type = NULL
                            /\ row.target_value = NULL
                            /\ row.target_date = NULL
                       ELSE \E g \in DOMAIN fitnessgoal :
                               TopGoal(m, g) /\ ShowsGoal(row, g)
                    /\ IF MetricsOf(m) = {}
                       THEN /\ row.latest_metric_at = NULL
                            /\ row.weight_kg = NULL
                            /\ row.heart_rate_bpm = NULL
                            /\ row.body_fat_percent = NULL
                       ELSE \E x \in DOMAIN healthmetric :
                               TopMetric(m, x) /\ ShowsMetric(row, x)]_vars

\* The dashboard of the first registered member, who has no metric, and two
\* active goals of which the one with the higher key has the earlier
\* target_date: the row shows the goal with target_date 30 and no metric.
C13_Witness ==
    /\ last.op = "view_member_dashboard"
    /\ Len(last.result) = 1
    /\ last.result[1].member_id = 1
    /\ ~Seeded
    /\ ActiveGoals(fitnessgoal, 1) = {1, 2}
    /\ fitnessgoal[1].target_date = 30
    /\ fitnessgoal[2].target_date = 5
    /\ last.result[1].target_date = Some(30)
    /\ healthmetric = <<>>
    /\ last.result[1].latest_metric_at = NULL

\* C14: in every reachable state, for every member that lookup_member_info
\* matches, the goal and the metric the lookup resolves are the rows that
\* member_dashboard_view yields for the member, also when several active
\* goals exist or several metrics share a recorded_at.
C14_LookupAgreesWithDashboard ==
    last.op = "lookup_member_info" =>
        \A m \in DOMAIN last.result :
            LET row == member_dashboard_view(m)
                found == last.result[m]
            IN  /\ IF found.goal = NULL THEN row.goal_type = NULL
                   ELSE ShowsGoal(row, found.goal[1])
                /\ IF found.metric = NULL THEN row.latest_metric_at = NULL
                   ELSE ShowsMetric(row, found.metric[1])

---------------------------------------------------------------------------
(* Properties of the seed *)

\* C15: seed_data is idempotent at the level of the whole dataset: called
\* when at least one member row exists, it inserts, updates and deletes
\* nothing in any table, so that a second run in a row leaves the state of the
\* first.
C15_SeedIdempotent ==
    [][(member # <<>> /\ seed_data)
          => /\ UNCHANGED tables
             /\ last' = Outcome("seed_data", "skipped")]_vars

\* seed_data was skipped on a database that holds the seeded rows and one
\* more member.
C15_Witness ==
    /\ last = Outcome("seed_data", "skipped")
    /\ Len(member) = Len(SeedMembers) + 1
    /\ room = SeedRooms
    /\ fitnessgoal = SeedGoals

---------------------------------------------------------------------------
(* Properties of the order of the checks *)

\* The rejection of the first failing step in the order: end > start,
\* trainer and room (and, for a session, member) exist, max_capacity within
\* the room's capacity, trainer free, room free.  xc is the class left out of
\* the conflict checks; sized is FALSE for a PT session, which has no capacity.
FirstFailure(found, t, r, s, e, sized, cap, xc) ==
    IF ~(e > s) THEN "invalid_window"
    ELSE IF ~found THEN "not_found"
    ELSE IF sized /\ cap > room[r].capacity THEN "capacity_exceeds_room"
    ELSE IF TrainerBooked(t, s, e, xc, 0) THEN "trainer_conflict"
    ELSE IF RoomBooked(r, s, e, xc, 0) THEN "room_conflict"
    ELSE "ok"

\* The value an update proposes: the answer, or the current one when blank.
Proposed(answer, current) == IF answer = NULL THEN current ELSE answer[1]

\* C16: class create, class update and schedule_pt_session apply their checks
\* in one order: a proposal that fails more than one check is rejected for the
\* first failing step in the order end > start (invalid_window), trainer and
\* room exist (not_found), max_capacity <= room.capacity
\* (capacity_exceeds_room), trainer conflict, room conflict.
C16_ChecksInStatedOrder ==
    [][/\ \A k \in OrderCreates :
             create_fitness_class(<<"New">>, NULL, k[1], k[2], k[3], k[4], k[5])
             => last'.result =
                   FirstFailure(Exists(trainer, k[1]) /\ Exists(room, k[2]),
                                k[1], k[2], k[3], k[4], TRUE, k[5], 0)
       /\ \A k \in OrderSessions :
             schedule_pt_session(k[1], k[2], k[3], k[4], k[5])
             => last'.result =
                   FirstFailure(/\ Exists(member, k[1]) /\ Exists(trainer, k[2])
                                /\ Exists(room, k[3]),
                                k[2], k[3], k[4], k[5], FALSE, 0, 0)
       /\ \A c \in {1, NewClass}, k \in OrderUpdates :
             (/\ Exists(fitnessclass, c)
              /\ update_fitness_class(c, NULL, NULL, k[1], k[2], k[3], k[4], k[5]))
             => LET cur == fitnessclass[c]
                    t == Proposed(k[1], cur.trainer_id)
                    r == Proposed(k[2], cur.room_id)
                IN  last'.result =
                       FirstFailure(Exists(trainer, t) /\ Exists(room, r), t, r,
                                    Proposed(k[3], cur.start_time),
                                    Proposed(k[4], cur.end_time), TRUE,
                                    Proposed(k[5], cur.max_capacity), c)]_vars

---------------------------------------------------------------------------
(* Properties of the class update *)

\* C17: a class update checks the proposed values against every booking but
\* the class itself.  An update with existing trainer and room, a capacity
\* the room holds and end > start is rejected as a conflict, the tables
\* unchanged, when the proposed trainer or room has another class or a PT
\* session sharing an instant with the proposed window; otherwise it is
\* written, also when it keeps trainer, room and window or moves the window
\* over the class's own previous window.
C17_UpdateSkipsOnlyItself ==
    [][\A c \in {1, NewClass}, ta \in {NULL, Some(2)}, ra \in {NULL, Some(4)},
          w \in BookMoves :
          (/\ Exists(fitnessclass, c)
           /\ last'.op = "update_fitness_class"
           /\ update_fitness_class(c, NULL, NULL, ta, ra, w[1], w[2], NULL))
          => LET cur == fitnessclass[c]
                 t == Proposed(ta, cur.trainer_id)
                 r == Proposed(ra, cur.room_id)
                 s == Proposed(w[1], cur.start_time)
                 e == Proposed(w[2], cur.end_time)
             IN  (/\ Exists(trainer, t) /\ Exists(room, r)
                  /\ cur.max_capacity <= room[r].capacity
                  /\ s < e)
                 => IF TrainerBooked(t, s, e, c, 0) \/ RoomBooked(r, s, e, c, 0)
                    THEN /\ last'.result \in {"trainer_conflict", "room_conflict"}
                         /\ UNCHANGED tables
                    ELSE /\ last'.result = "ok"
                         /\ fitnessclass' =
                               [fitnessclass EXCEPT ![c] =
                                   [cur EXCEPT !.trainer_id = t, !.room_id = r,
                                               !.start_time = s, !.end_time = e]]]_vars

\* Class 1 was moved from 06:00-07:00 to 06:30-07:30, over its previous
\* window, with its trainer and room, and the last update was turned away as
\* a conflict.
C17_Witness ==
    /\ last.op = "update_fitness_class"
    /\ last.result \in {"trainer_conflict", "room_conflict"}
    /\ fitnessclass[1].trainer_id = 1
    /\ fitnessclass[1].room_id = 1
    /\ fitnessclass[1].start_time = Hours(6) + 1
    /\ fitnessclass[1].end_time = Hours(7) + 1

---------------------------------------------------------------------------
(* Properties of the windows *)

\* The rows of a table that has start_time and end_time.
Windows(t) == {t[i] : i \in DOMAIN t}

\* C18: a proposed window with end <= start is rejected by class create,
\* class update (on the resolved window), schedule_pt_session and
\* set_trainer_availability with every table unchanged and without a verdict
\* of the conflict checks; so in every reachable state every stored class, PT
\* session and availability slot has end_time > start_time.
C18_NoEmptyWindow ==
    /\ [](\A row \in Windows(fitnessclass) \cup Windows(ptsession)
                     \cup Windows(traineravailability) :
             row.end_time > row.start_time)
    /\ [][/\ \A k \in OrderCreates :
                (/\ k[4] <= k[3]
                 /\ create_fitness_class(<<"New">>, NULL, k[1], k[2], k[3], k[4], k[5]))
                => /\ UNCHANGED tables
                   /\ last' = Outcome("create_fitness_class", "invalid_window")
          /\ \A c \in {1, NewClass}, k \in OrderUpdates :
                (/\ Exists(fitnessclass, c)
                 /\ Proposed(k[4], fitnessclass[c].end_time)
                       <= Proposed(k[3], fitnessclass[c].start_time)
                 /\ update_fitness_class(c, NULL, NULL, k[1], k[2], k[3], k[4], k[5]))
                => /\ UNCHANGED tables
                   /\ last'.op = "update_fitness_class"
                   /\ last'.result \in {"not_found", "capacity_exceeds_room",
                                        "invalid_window"}
          /\ \A k \in OrderSessions :
                (/\ k[5] <= k[4]
                 /\ schedule_pt_session(k[1], k[2], k[3], k[4], k[5]))
                => /\ UNCHANGED tables
                   /\ last' = Outcome("schedule_pt_session", "invalid_window")
          /\ \A k \in WindowSlots :
                (/\ k[3] <= k[2]
                 /\ set_trainer_availability(k[1], k[2], k[3]))
                => /\ UNCHANGED tables
                   /\ last' = Outcome("set_trainer_availability", "invalid_window")]_vars

\* A slot, a class and a session were added to the seeded rows, and the
\* operation that ended last was turned away for its window.
C18_Witness ==
    /\ last.result = "invalid_window"
    /\ Len(traineravailability) = Len(SeedAvailability) + 1
    /\ Exists(fitnessclass, NewClass)
    /\ Exists(ptsession, NewSession)

---------------------------------------------------------------------------
(* Properties of a failing commit *)

\* C19: for every write operation (register member, update profile and goal,
\* add metric, register for class, set availability, create or update class,
\* schedule PT session, create or pay invoice), when the commit raises, no
\* table changes, the failure is reported by the operation instead of being
\* raised out of it, and the client is back at the menu.
C19_CommitFailureCaught ==
    [][(last' # last /\ last'.result \in {"failure_reported", "raised"})
          => /\ UNCHANGED tables
             /\ last'.result = "failure_reported"
             /\ \A p \in Clients : txn'[p] = Idle]_vars

---------------------------------------------------------------------------
(* Properties of concurrent bookings *)

\* C20: the overlap checks read the committed bookings and nothing stops an
\* insert afterwards.  A booking whose checks pass has no committed booking
\* of its trainer or room overlapping its window at that moment; and its
\* commit then succeeds and adds its row whatever was committed in between.
\* So when two bookings of one trainer or room in overlapping windows are both
\* checked before either commits, both are stored: a double booking is
\* reachable under concurrency.
C20_ChecksThenCommitsUnguarded ==
    [][\A p \in Clients :
          /\ (txn[p] = Idle /\ txn'[p] # Idle)
                => LET row == txn'[p].row
                   IN  /\ row.start_time < row.end_time
                       /\ ~TrainerBooked(row.trainer_id, row.start_time,
                                         row.end_time, 0, 0)
                       /\ ~RoomBooked(row.room_id, row.start_time,
                                      row.end_time, 0, 0)
          /\ (txn[p] # Idle /\ txn'[p] = Idle)
                => /\ last' = Outcome(txn[p].op, "ok")
                   /\ IF txn[p].op = "schedule_pt_session"
                      THEN /\ ptsession' = Append(ptsession, txn[p].row)
                           /\ fitnessclass' = fitnessclass
                      ELSE /\ fitnessclass' = Append(fitnessclass, txn[p].row)
                           /\ ptsession' = ptsession]_vars

\* A class and a PT session of trainer 1 are both stored for 01:00-02:00, in
\* different rooms.
C20_Witness ==
    /\ Exists(fitnessclass, NewClass)
    /\ Exists(ptsession, NewSession)
    /\ fitnessclass[NewClass].trainer_id = 1
    /\ ptsession[NewSession].trainer_id = 1
    /\ fitnessclass[NewClass].room_id # ptsession[NewSession].room_id
    /\ Overlap(fitnessclass[NewClass], ptsession[NewSession])
    /\ \A p \in Clients : txn[p] = Idle

---------------------------------------------------------------------------
(* Properties of the members *)

\* C21: in every state reached by serial operations no two members have the
\* same email: register_member with an email that some member has is rejected
\* and leaves the member table unchanged, and no operation changes the email
\* of an existing member.
C21_UniqueEmail ==
    /\ [](\A i \in DOMAIN member, j \in DOMAIN member :
             member[i].email = member[j].email => i = j)
    /\ [][/\ \A e \in MemberEmails :
                (EmailInUse(e) /\ register_member(<<"New", 1>>, e, NULL, NULL, NULL))
                => /\ last' = Outcome("register_member", "email_in_use")
                   /\ UNCHANGED tables
          /\ \A i \in DOMAIN member :
                /\ Exists(member', i)
                /\ member'[i].email = member[i].email]_vars

\* Beside the seeded members there is one with a new email, member 1 was
\* renamed by a profile update, and the registration asked for last was
\* turned away because its email is in use.
C21_Witness ==
    /\ last = Outcome("register_member", "email_in_use")
    /\ Len(member) = Len(SeedMembers) + 1
    /\ member[NewMember].email = <<"new", 1>>
    /\ member[1].full_name = <<"Renamed">>
    /\ member[1].email = SeedMembers[1].email

---------------------------------------------------------------------------
(* Properties of the availability slots *)

\* Trainer t has a slot whose window shares an instant with [s, e).
SlotTaken(t, s, e) ==
    \E i \in DOMAIN traineravailability :
        /\ traineravailability[i].trainer_id = t
        /\ Intersects(traineravailability[i], s, e)

\* C22: in every state reached by serial seed_data and
\* set_trainer_availability, no two distinct slots of one trainer overlap.
\* A slot proposed for an existing trainer with end > start is rejected,
\* nothing written, when it shares an instant with a slot of the trainer, and
\* is stored otherwise: also when it only touches a slot at an endpoint, and
\* whatever classes and PT sessions the trainer has.
C22_SlotsDisjoint ==
    /\ [](\A i \in DOMAIN traineravailability, j \in DOMAIN traineravailability :
             (/\ i # j
              /\ traineravailability[i].trainer_id = traineravailability[j].trainer_id)
             => ~Overlap(traineravailability[i], traineravailability[j]))
    /\ [][\A t \in SlotTrainers, w \in SlotWindows :
             (/\ w[1] < w[2]
              /\ Exists(trainer, t)
              /\ set_trainer_availability(t, w[1], w[2]))
             => IF SlotTaken(t, w[1], w[2])
                THEN /\ last' = Outcome("set_trainer_availability", "overlap")
                     /\ UNCHANGED tables
                ELSE /\ last' = Outcome("set_trainer_availability", "ok")
                     /\ traineravailability' =
                           Append(traineravailability,
                                  [trainer_id |-> t, start_time |-> w[1],
                                   end_time |-> w[2]])]_vars

\* Trainer 1 got the slot 09:00-15:00, which starts where the seeded slot
\* ends and runs over the trainer's PT session at 14:00-15:00; a later slot
\* was turned away as overlapping.
C22_Witness ==
    /\ last = Outcome("set_trainer_availability", "overlap")
    /\ \E i \in DOMAIN traineravailability :
          /\ i > Len(SeedAvailability)
          /\ traineravailability[i] =
                [trainer_id |-> 1, start_time |-> Hours(9), end_time |-> Hours(15)]
    /\ traineravailability[1] =
          [trainer_id |-> 1, start_time |-> Hours(6), end_time |-> Hours(9)]
    /\ TrainerBooked(1, Hours(9), Hours(15), 0, 0)

---------------------------------------------------------------------------
(* Properties of the invoices *)

\* Invoice row after being marked paid at time now.
MarkedPaid(row, now) ==
    [row EXCEPT !.status = "PAID",
                !.due_at = IF row.due_at = NULL THEN Some(now) ELSE row.due_at]

\* C23: invoice status only moves forward.  A created invoice is UNPAID
\* unless it is marked paid in the create call; marking an existing invoice
\* paid sets status PAID, keeps a due_at that is set and fills an empty one,
\* and changes no other invoice; a PAID invoice is never changed by any
\* operation, so marking it paid again changes nothing and none goes back to
\* UNPAID.
C23_InvoiceStatusForward ==
    [][/\ \A i \in DOMAIN invoice :
             /\ Exists(invoice', i)
             /\ invoice[i].status = "PAID" => invoice'[i] = invoice[i]
       /\ \A k \in InvoiceCalls :
             create_and_pay_invoice(k[1], k[2], k[3], 50, NULL, k[4], k[5])
             => IF k[1] = "P" /\ Exists(invoice, k[2])
                THEN invoice' = [invoice EXCEPT ![k[2]] = MarkedPaid(@, k[5])]
                ELSE IF k[1] = "C" /\ Exists(member, k[3])
                THEN /\ Len(invoice') = Len(invoice) + 1
                     /\ SubSeq(invoice', 1, Len(invoice)) = invoice
                     /\ invoice'[Len(invoice')].status =
                           IF k[4] THEN "PAID" ELSE "UNPAID"
                ELSE invoice' = invoice]_vars

\* Seeded invoice 1 was marked paid and kept its due date, seeded invoice 3
\* was PAID all along, and the invoice created UNPAID without a due date was
\* marked paid at 02:00, which became its due date.
C23_Witness ==
    /\ last = Outcome("create_and_pay_invoice", "ok")
    /\ Exists(invoice, NoInvoice)
    /\ invoice[NoInvoice].status = "PAID"
    /\ invoice[NoInvoice].due_at = Some(Hours(2))
    /\ invoice[1] = [SeedInvoices[1] EXCEPT !.status = "PAID"]
    /\ SeedInvoices[1].status = "UNPAID"
    /\ invoice[3] = SeedInvoices[3]
    /\ invoice[3].status = "PAID"

=============================================================================
